---- MODULE Spec2Model ----
(***************************************************************************)
(* Verification model of decompyle3's reduction check iflaststmt           *)
(* (parsers/reducecheck/iflaststmt.py) and of the source renderer          *)
(* SourceWalker (semantics/pysource.py).  The reduction check is modelled  *)
(* statement by statement: one action per block of the function, the scan  *)
(* loop one iteration per step.  Python's 0-based indexing, including the  *)
(* wrap of a negative index, is kept.  Each part of the renderer has its   *)
(* own specification over its own variables; the variables of the other   *)
(* parts stay at their idle values.                                        *)
(***************************************************************************)
EXTENDS Integers, Sequences, FiniteSets, TLC

VARIABLES
    rule,       \* argument rule: <<lhs, rhs>>
    ast,        \* argument ast: <<testexpr node, stmts node>>
    insts,      \* self.insts
    tokens,     \* argument tokens
    first,      \* argument first
    last,       \* argument last, as the caller holds it
    pc,         \* source line the call is at, or "done"
    last_l,     \* the local variable last (rebound at lines 22 and 66)
    i,          \* the scan index i of lines 45-51
    result,     \* the returned value, "IndexError" when the call raised
    retAt,      \* the source line that ended the call
    seen,       \* the blocks this call has entered
    calls,      \* 1 during the first call on these inputs, 2 during the second
    prev        \* result of the previous call on these inputs

ifvars == <<rule, ast, insts, tokens, first, last, pc, last_l, i, result, retAt,
            seen, calls, prev>>

VARIABLES
    params,            \* self.params: the scope's f, indent, is_lambda, _globals
    param_stack,       \* self.param_stack
    pending_newlines,  \* self.pending_newlines
    frames,            \* the active traverse calls: local p, and the state at entry
    log,               \* the write/println calls made in the current scope
    ret,               \* <<>>, or the one value the last traverse returned, with its calls
    nops               \* number of calls made so far

wvars == <<params, param_stack, pending_newlines, frames, log, ret, nops>>

VARIABLES
    prec,              \* self.prec
    kstack,            \* the handlers running, innermost last
    fin                \* <<>>, or the one record of the render that finished last

pvars == <<prec, kstack, fin>>

VARIABLES
    doc_node           \* node[0] of a docstring node: attr, pattr, and whether attr is a str

dvars == <<doc_node>>

VARIABLES
    TABLE_R,           \* the module's table TABLE_R: the entries customize added
    walker             \* per SourceWalker: version, and the entries it finds

tvars == <<TABLE_R, walker>>

VARIABLES
    xpc,               \* where code_deparse is: start, gen_source, report, done
    tolerate_errors,   \* self.tolerate_errors
    deparsed_ast,      \* deparsed.ast: "unset", or the start symbol of the tree
    ast_errors,        \* self.ast_errors
    ERROR,             \* self.ERROR is set
    written,           \* what was written to the output, in order
    outcome,           \* "running", or how code_deparse ended
    nested,            \* number of nested code objects met in gen_source
    parse_failures     \* number of build_ast calls in which the parser failed

xvars == <<xpc, tolerate_errors, deparsed_ast, ast_errors, ERROR, written,
           outcome, nested, parse_failures>>

VARIABLES
    typ,               \* the marker template_engine is at: "p", "P", "C" or "D"
    targ,              \* entry[arg], the marker's tuple
    tchildren,         \* the children of node: kind, length, and whether its render raises
    tpc,               \* where the marker's code is: start, child, loop, done, raised
    tp,                \* the local p of lines 2223 and 2277
    remaining,         \* the local remaining of the range loops
    tk,                \* number of subnodes the range loop has taken
    emitted,           \* the renders and separators of the marker, in order
    tprec0             \* self.prec when the marker was reached

evars == <<typ, targ, tchildren, tpc, tp, remaining, tk, emitted, tprec0>>

VARIABLES
    hnode,             \* the node given to a handler
    return_none,       \* self.return_none
    hname              \* "none", or the handler that has run

hvars == <<hnode, return_none, hname>>

VARIABLES
    btokens,           \* argument tokens of build_ast
    btokens0,          \* tokens as build_ast received it
    isTopLevel,        \* argument isTopLevel
    noneInNames,       \* argument noneInNames
    hide_internal,     \* self.hide_internal
    bpc                \* "idle", "start", or how the tail normalisation ended

bvars == <<btokens, btokens0, isTopLevel, noneInNames, hide_internal, bpc>>

VARIABLES
    siblings,          \* return_stmts_node[0]: per sibling, whether it is an if-return
    ipc,               \* where the block handler is
    ik,                \* number of siblings the loop of line 773 has taken
    past_else,         \* local past_else
    prev_stmt_is_if_ret, \* local prev_stmt_is_if_ret
    if_ret_at_end,     \* local if_ret_at_end
    indent0            \* self.indent when the handler started

ivars == <<siblings, ipc, ik, past_else, prev_stmt_is_if_ret, if_ret_at_end,
           indent0>>

latevars == <<evars, hvars, bvars, ivars>>

pyvars == <<wvars, pvars, dvars, tvars, xvars, latevars>>

\* what each part of the renderer leaves alone
notWrite == <<ifvars, pvars, dvars, tvars, xvars, latevars>>
notPrec == <<ifvars, wvars, dvars, tvars, xvars, latevars>>
notDoc == <<ifvars, pvars, tvars, xvars, latevars>>
notTable == <<ifvars, wvars, pvars, dvars, xvars, latevars>>
notDeparse == <<ifvars, wvars, pvars, dvars, tvars, latevars>>

vars == <<ifvars, pyvars>>

(***************************************************************************)
(* Idle values: what the variables of a part hold while another part runs. *)
(***************************************************************************)
WriteIdle ==
    /\ params = [f |-> <<>>, indent |-> <<>>, is_lambda |-> FALSE, globals |-> {}]
    /\ param_stack = <<>>
    /\ pending_newlines = 0
    /\ frames = <<>>
    /\ log = <<>>
    /\ ret = <<>>
    /\ nops = 0

PrecIdle ==
    /\ prec = 100
    /\ kstack = <<>>
    /\ fin = <<>>

\* no docstring node is being rendered
DocIdle == doc_node = <<>>

TableIdle ==
    /\ TABLE_R = <<>>
    /\ walker = <<>>

DeparseIdle ==
    /\ xpc = "idle"
    /\ tolerate_errors = FALSE
    /\ deparsed_ast = "unset"
    /\ ast_errors = <<>>
    /\ ERROR = FALSE
    /\ written = <<>>
    /\ outcome = "running"
    /\ nested = 0
    /\ parse_failures = 0

EngineIdle ==
    /\ typ = "idle"
    /\ targ = <<>>
    /\ tchildren = <<>>
    /\ tpc = "idle"
    /\ tp = 0
    /\ remaining = 0
    /\ tk = 0
    /\ emitted = <<>>
    /\ tprec0 = 0

HandlerIdle ==
    /\ hnode = <<>>
    /\ return_none = FALSE
    /\ hname = "none"

TailIdle ==
    /\ btokens = <<>>
    /\ btokens0 = <<>>
    /\ isTopLevel = FALSE
    /\ noneInNames = FALSE
    /\ hide_internal = FALSE
    /\ bpc = "idle"

BlockIdle ==
    /\ siblings = <<>>
    /\ ipc = "idle"
    /\ ik = 0
    /\ past_else = FALSE
    /\ prev_stmt_is_if_ret = FALSE
    /\ if_ret_at_end = FALSE
    /\ indent0 = <<>>

LateIdle == EngineIdle /\ HandlerIdle /\ TailIdle /\ BlockIdle

\* every part of the renderer but build_ast's tail
PyIdleBut ==
    /\ WriteIdle /\ PrecIdle /\ DocIdle /\ TableIdle /\ DeparseIdle
    /\ EngineIdle /\ HandlerIdle /\ BlockIdle

PyIdle ==
    WriteIdle /\ PrecIdle /\ DocIdle /\ TableIdle /\ DeparseIdle /\ LateIdle

IfIdle ==
    /\ rule = <<>>
    /\ ast = <<>>
    /\ insts = <<>>
    /\ tokens = <<>>
    /\ first = 0
    /\ last = 0
    /\ pc = "idle"
    /\ last_l = 0
    /\ i = 0
    /\ result = "none"
    /\ retAt = "none"
    /\ seen = {}
    /\ calls = 0
    /\ prev = "none"

inputs == <<rule, ast, insts, tokens, first, last>>

(***************************************************************************)
(* Bounds of the input space.                                              *)
(***************************************************************************)
MaxTokens == 3
MaxInsts == 3

(***************************************************************************)
(* Python values.  None is the empty set, an integer operand v is {v}.     *)
(***************************************************************************)
None == {}

\* seq[k] of Python for a list: 0-based, a negative k counts from the end
PyIndex(seq, k) == IF k >= 0 THEN k + 1 ELSE Len(seq) + k + 1

InRange(seq, k) == PyIndex(seq, k) \in 1..Len(seq)

At(seq, k) == seq[PyIndex(seq, k)]

\* Token.__eq__ against a string compares the kind
KindIs(tok, name) == tok.kind = name

\* tok.attr == v for an integer v
AttrIs(tok, v) == tok.attr = {v}

\* str.startswith("POP_JUMP_IF_")
StartsWithPopJumpIf(kind) == kind \in {"POP_JUMP_IF_FALSE", "POP_JUMP_IF_TRUE"}

(***************************************************************************)
(* The rules the check is registered for.                                  *)
(***************************************************************************)
RuleA == <<"iflaststmt", <<"testexpr", "stmts">>>>
RuleC == <<"iflaststmtc", <<"testexpr", "stmts">>>>
RuleJ == <<"iflaststmt", <<"testexpr", "stmts", "JUMP_FORWARD">>>>
Rules == {RuleA, RuleC, RuleJ}

TestKinds == {"testtrue", "testtruec", "testfalse", "testfalsec"}
AndKinds == {"nand", "and"}

(***************************************************************************)
(* Input space.  Token i of the list (0-based) sits at offset 10*(i+1), as *)
(* does instruction i of the instruction array, so offsets are unique and  *)
(* increasing.                                                             *)
(***************************************************************************)
OffsetOf(k) == 10 * (k + 1)

JumpTargets == {5, 10, 20, 25, 30, 35}

Tok(kind, k, attr) == [kind |-> kind, offset |-> OffsetOf(k), attr |-> attr]

\* the tokens that may stand at 0-based position k of a list of length len
TokensAt(k, len) ==
    {Tok(kd, k, None) : kd \in {"LOAD_NAME", "BREAK_LOOP", "COME_FROM_LOOP"}}
      \cup {Tok("JUMP_BACK", k, {5}), Tok("POP_JUMP_IF_FALSE", k, {35})}
      \cup (IF k = len - 1 /\ len >= 3 THEN {Tok("RETURN_LAST", k, None)} ELSE {})

TokenLists ==
    UNION {{t \in [1..len -> UNION {TokensAt(k, len) : k \in 0..(len - 1)}] :
               \A p \in 1..len : t[p] \in TokensAt(p - 1, len)} : len \in 1..MaxTokens}

PlainTokens == [p \in 1..MaxTokens |-> Tok("LOAD_NAME", p - 1, None)]

Inst(k, optype, argval) == [offset |-> OffsetOf(k), optype |-> optype, argval |-> argval]

InstsAt(k) ==
    {Inst(k, "other", 0)}
      \cup {Inst(k, ot, t) : ot \in {"jabs", "jrel"}, t \in {30, 40}}

InstLists ==
    UNION {{s \in [1..len -> UNION {InstsAt(k) : k \in 0..(len - 1)}] :
               \A p \in 1..len : s[p] \in InstsAt(p - 1)} : len \in 1..MaxInsts}

PlainInsts == [p \in 1..MaxInsts |-> Inst(p - 1, "other", 0)]

Node(kind, children) == [kind |-> kind, children |-> children]
Leaf(kind, attr) == [kind |-> kind, attr |-> attr]

\* the test nodes: testexpr[0]
TestNodes ==
    {Node("testfalse", <<Leaf(k, None)>>) : k \in {"and", "nand", "or", "expr"}}
      \cup {Node("testfalse", <<Leaf("expr", None), Leaf("POP_JUMP_IF_FALSE", t)>>) :
               t \in JumpTargets}
      \cup {Node("testtruec", <<Leaf("expr", None), Leaf("POP_JUMP_IF_TRUE", t)>>) :
               t \in JumpTargets}
      \cup {Node("testfalse", <<Leaf("expr", None), Leaf("come_froms", None)>>),
            Node("testexprc", <<Leaf("expr", None), Leaf("POP_JUMP_IF_FALSE", 25)>>)}

\* ast: ast[0] the testexpr node, ast[1] the stmts node with the offset of its
\* first child token
Asts(offsets) ==
    {<<Node("testexpr", <<t>>), [kind |-> "stmts", first_offset |-> o]>> :
        t \in TestNodes, o \in offsets}

offset2inst_index(offset) == CHOOSE k \in 0..(Len(insts) - 1) : At(insts, k).offset = offset

Start(c) ==
    /\ pc = "L18"
    /\ last_l = last
    /\ i = 0
    /\ result = "none"
    /\ retAt = "none"
    /\ seen = {}
    /\ calls = c

\* A candidate spans the test and at least one token of the body, so the
\* window holds two tokens or more once the end marker is set aside.
IsWindow(toks, f, l) ==
    /\ f \in 0..(Len(toks) - 1)
    /\ l \in 0..(Len(toks) - 1)
    /\ f < (IF KindIs(At(toks, l), "RETURN_LAST") THEN l - 1 ELSE l)

\* rich token windows over an instruction array without jumps
InitWindow ==
    /\ rule \in Rules
    /\ insts = PlainInsts
    /\ ast \in Asts({OffsetOf(1)})
    /\ tokens \in TokenLists
    /\ first \in 0..MaxTokens
    /\ last \in 0..MaxTokens
    /\ IsWindow(tokens, first, last)

\* rich instruction arrays under a window of plain tokens; the body never
\* starts at the first instruction, the test comes before it
InitScan ==
    /\ rule = RuleA
    /\ insts \in InstLists
    /\ ast \in Asts({insts[p].offset : p \in 2..Len(insts)})
    /\ tokens = PlainTokens
    /\ first = 0
    /\ last \in 0..MaxTokens
    /\ IsWindow(tokens, first, last)

Init ==
    /\ InitWindow \/ InitScan
    /\ prev = "none"
    /\ Start(1)
    /\ PyIdle

(***************************************************************************)
(* Names of the function body.                                             *)
(***************************************************************************)
\* argument n: the caller passes the length of the token list
n == Len(tokens)

testexpr == ast[1]
test == testexpr.children[1]
test_len == Len(test.children)
jump_target == test.children[2].attr
first_offset == At(tokens, first).offset
stmt_offset == ast[2].first_offset
inst_offset == offset2inst_index(stmt_offset)
testexpr_last_inst == At(insts, inst_offset - 1)
target_offset == testexpr_last_inst.argval

Return(value, line) ==
    /\ pc' = "done"
    /\ result' = value
    /\ retAt' = line

Goto(line) ==
    /\ pc' = line
    /\ UNCHANGED <<result, retAt>>

Enter(line) == seen' = seen \cup {line}

\* lines 21-22: the local last after the RETURN_LAST adjustment
AdjustLast(l) == IF KindIs(At(tokens, l), "RETURN_LAST") THEN l - 1 ELSE l

\* line 24
IsVariantA == rule = RuleA

\* line 36 without the comparison against the end of the window
Mismatch_any(l) == testexpr_last_inst.optype = "jabs"

\* lines 34-36: the jump out of the test does not go to the end of the window
Mismatch(l) ==
    /\ testexpr_last_inst.optype = "jabs"
    /\ target_offset # At(tokens, l).offset

\* lines 18-45 with the end marker popped off the caller's token list
\* instead of the local index being rebound
VariantA_pop ==
    /\ pc = "L18"
    /\ Enter("L18")
    /\ tokens' = IF KindIs(At(tokens, last), "RETURN_LAST")
                   THEN SubSeq(tokens, 1, Len(tokens) - 1) ELSE tokens
    /\ last_l' = AdjustLast(last)
    /\ IF IsVariantA /\ Mismatch(last_l')
         THEN i' = inst_offset /\ Goto("L47")
         ELSE i' = i /\ Goto("L56")
    /\ UNCHANGED <<rule, ast, insts, first, last, calls, prev>>
    /\ UNCHANGED pyvars

\* lines 18-45
VariantA ==
    /\ pc = "L18"
    /\ Enter("L18")
    /\ last_l' = AdjustLast(last)
    /\ IF IsVariantA /\ Mismatch(last_l')
         THEN i' = inst_offset /\ Goto("L47")
         ELSE i' = i /\ Goto("L56")
    /\ UNCHANGED <<inputs, calls, prev>>
    /\ UNCHANGED pyvars

\* line 48 looking at absolute jumps only
IsJumpTo_abs(inst, target) == inst.optype = "jabs" /\ inst.argval = target

\* line 48
IsJumpTo(inst, target) == inst.optype \in {"jabs", "jrel"} /\ inst.argval = target

\* line 47 with <= in place of <
ScanContinues_le(inst, target) == inst.offset <= target

\* line 47: the loop condition
ScanContinues(inst, target) == inst.offset < target

\* value returned at line 49, a jump to the same target was found
ScanFoundValue == "False"

\* value returned at line 52, the scan reached the target
ScanExitValue == "True"

\* lines 47-49
ScanFound ==
    /\ pc = "L47"
    /\ ScanContinues(At(insts, i), target_offset)
    /\ IsJumpTo(At(insts, i), target_offset)
    /\ Enter("L47")
    /\ Return(ScanFoundValue, "L49")
    /\ UNCHANGED <<inputs, last_l, i, calls, prev>>
    /\ UNCHANGED pyvars

\* lines 47-51, the next instruction exists
ScanAdvance ==
    /\ pc = "L47"
    /\ ScanContinues(At(insts, i), target_offset)
    /\ ~IsJumpTo(At(insts, i), target_offset)
    /\ InRange(insts, i + 1)
    /\ Enter("L47")
    /\ i' = i + 1
    /\ Goto("L47")
    /\ UNCHANGED <<inputs, last_l, calls, prev>>
    /\ UNCHANGED pyvars

\* lines 47-51, self.insts[i] raises IndexError past the end of the array
ScanFault ==
    /\ pc = "L47"
    /\ ScanContinues(At(insts, i), target_offset)
    /\ ~IsJumpTo(At(insts, i), target_offset)
    /\ ~InRange(insts, i + 1)
    /\ Enter("L47")
    /\ Return("IndexError", "L51")
    /\ UNCHANGED <<inputs, last_l, i, calls, prev>>
    /\ UNCHANGED pyvars

\* lines 47, 52
ScanExit ==
    /\ pc = "L47"
    /\ ~ScanContinues(At(insts, i), target_offset)
    /\ Enter("L47")
    /\ Return(ScanExitValue, "L52")
    /\ UNCHANGED <<inputs, last_l, i, calls, prev>>
    /\ UNCHANGED pyvars

\* line 56
IsTestNode == test.kind \in TestKinds

\* line 60 without "nand" in the tuple
BareAnd_and ==
    /\ test_len = 1
    /\ test.children[1].kind = "and"
    /\ rule[2] = <<"testexpr", "stmts">>

\* line 60
BareAnd ==
    /\ test_len = 1
    /\ test.children[1].kind \in AndKinds
    /\ rule[2] = <<"testexpr", "stmts">>

\* line 64
HasPopJump == test_len > 1 /\ StartsWithPopJumpIf(test.children[2].kind)

\* lines 56-64, and line 100 when the test has no conditional jump
TestShape ==
    /\ pc = "L56"
    /\ Enter("L56")
    /\ IF IsTestNode /\ BareAnd THEN Return("True", "L62")
       ELSE IF IsTestNode /\ HasPopJump THEN Goto("L65")
       ELSE Return("False", "L100")
    /\ UNCHANGED <<inputs, last_l, i, calls, prev>>
    /\ UNCHANGED pyvars

\* line 69 with the lower bound excluded
InSpan_strict(lo, t, hi) == lo < t /\ t < hi

\* line 69 with the upper bound included
InSpan_closed(lo, t, hi) == lo <= t /\ t <= hi

\* line 69
InSpan(lo, t, hi) == lo <= t /\ t < hi

\* lines 65-70
Containment ==
    /\ pc = "L65"
    /\ Enter("L65")
    /\ last_l' = IF last_l = n THEN last_l - 1 ELSE last_l
    /\ IF InSpan(first_offset, jump_target, At(tokens, last_l').offset)
         THEN Return("True", "L70")
         ELSE Goto("L74")
    /\ UNCHANGED <<inputs, i, calls, prev>>
    /\ UNCHANGED pyvars

\* line 74
HasTokenBeyond(l) == (l + 1) < n

\* line 75 reading tokens[last] instead of tokens[last - 1]
BackwardJump_here(l) == KindIs(At(tokens, l), "JUMP_BACK")

\* lines 75-76
BackwardJump(l) == KindIs(At(tokens, l - 1), "JUMP_BACK")

\* line 82 reading tokens[last] instead of tokens[last + 1]
LoopExit_here(l) ==
    /\ KindIs(At(tokens, l), "COME_FROM_LOOP")
    /\ ~KindIs(At(tokens, l), "BREAK_LOOP")

\* line 82
LoopExit(l) ==
    /\ KindIs(At(tokens, l + 1), "COME_FROM_LOOP")
    /\ ~KindIs(At(tokens, l), "BREAK_LOOP")

\* lines 74-85 with the test of line 75 moved out of the guard of line 74
Refinements_unguarded ==
    /\ pc = "L74"
    /\ Enter("L74")
    /\ IF BackwardJump(last_l) /\ jump_target > first_offset
         THEN Return("True", "L80")
       ELSE IF HasTokenBeyond(last_l) /\ ~BackwardJump(last_l) /\ LoopExit(last_l)
         THEN Return("True", "L85")
       ELSE Goto("L90")
    /\ UNCHANGED <<inputs, last_l, i, calls, prev>>
    /\ UNCHANGED pyvars

\* lines 74-85
Refinements ==
    /\ pc = "L74"
    /\ Enter("L74")
    /\ IF HasTokenBeyond(last_l) /\ BackwardJump(last_l) /\ jump_target > first_offset
         THEN Return("True", "L80")
       ELSE IF HasTokenBeyond(last_l) /\ ~BackwardJump(last_l) /\ LoopExit(last_l)
         THEN Return("True", "L85")
       ELSE Goto("L90")
    /\ UNCHANGED <<inputs, last_l, i, calls, prev>>
    /\ UNCHANGED pyvars

\* line 90
AfterPopJumpIfFalse == first > 0 /\ KindIs(At(tokens, first - 1), "POP_JUMP_IF_FALSE")

\* line 91 with the comparison negated
ChainedAndValue_neg == IF AttrIs(At(tokens, first - 1), jump_target) THEN "False" ELSE "True"

\* line 91: the value returned
ChainedAndValue == IF AttrIs(At(tokens, first - 1), jump_target) THEN "True" ELSE "False"

\* lines 90-91
ChainedAnd ==
    /\ pc = "L90"
    /\ Enter("L90")
    /\ IF AfterPopJumpIfFalse THEN Return(ChainedAndValue, "L91") ELSE Goto("L93")
    /\ UNCHANGED <<inputs, last_l, i, calls, prev>>
    /\ UNCHANGED pyvars

\* lines 93-100
TieBreak ==
    /\ pc = "L93"
    /\ Enter("L93")
    /\ IF /\ jump_target > At(tokens, last_l).offset
          /\ AttrIs(At(tokens, last_l - 1), jump_target)
         THEN Return("False", "L96")
         ELSE Return("False", "L100")
    /\ UNCHANGED <<inputs, last_l, i, calls, prev>>
    /\ UNCHANGED pyvars

\* the parser calls the check again on the same arguments
CallAgain ==
    /\ pc = "done"
    /\ calls = 1
    /\ prev' = result
    /\ pc' = "L18"
    /\ last_l' = last
    /\ i' = 0
    /\ result' = "none"
    /\ retAt' = "none"
    /\ seen' = {}
    /\ calls' = calls + 1
    /\ UNCHANGED inputs
    /\ UNCHANGED pyvars

Next ==
    \/ VariantA
    \/ ScanFound
    \/ ScanAdvance
    \/ ScanFault
    \/ ScanExit
    \/ TestShape
    \/ Containment
    \/ Refinements
    \/ ChainedAnd
    \/ TieBreak
    \/ CallAgain

Spec == Init /\ [][Next]_vars

(***************************************************************************)
(* Vocabulary of the properties, written on the arguments alone.           *)
(***************************************************************************)
Done == pc = "done"

\* the call reached the conditional-branch checks of lines 65-98
InVariantB == "L65" \in seen

\* index last after the end-marker adjustment
lastAdj == IF At(tokens, last).kind = "RETURN_LAST" THEN last - 1 ELSE last

firstOff == At(tokens, first).offset
lastOff == At(tokens, lastAdj).offset
branchTarget == test.children[2].attr

tokenBeyond == lastAdj + 1 < Len(tokens)

\* refinement (a) as the code applies it; index lastAdj - 1 wraps as in Python
refinementA ==
    /\ tokenBeyond
    /\ At(tokens, lastAdj - 1).kind = "JUMP_BACK"
    /\ branchTarget > firstOff

\* the conditions of refinement (b)
refinementB ==
    /\ tokenBeyond
    /\ At(tokens, lastAdj + 1).kind = "COME_FROM_LOOP"
    /\ At(tokens, lastAdj).kind # "BREAK_LOOP"

chained == first > 0 /\ At(tokens, first - 1).kind = "POP_JUMP_IF_FALSE"

sameJoin == At(tokens, first - 1).attr = {branchTarget}

\* C1: in Variant B, once Variant A has not returned, every branch target t
\* with offset(tokens[first]) <= t < offset(tokens[last]) (last adjusted)
\* is rejected.
C1_Containment ==
    (Done /\ InVariantB /\ firstOff <= branchTarget /\ branchTarget < lastOff)
        => result = "True"

\* the case reached through Variant A: the jump before the body matches the
\* end of the window, and the branch target is the first token's own offset
C1_Witness ==
    /\ Done /\ InVariantB
    /\ rule = RuleA /\ testexpr_last_inst.optype = "jabs"
    /\ branchTarget = firstOff /\ branchTarget < lastOff
    /\ result = "True"

\* C2: window at offsets 10, 20, 30 with first the token at 10 and last the
\* token at 30: target 25 is rejected, targets 30 and 5 are accepted.
C2_ConcreteWindow ==
    (/\ Done /\ InVariantB
     /\ Len(tokens) = 3 /\ first = 0 /\ last = 2 /\ lastAdj = 2
     /\ firstOff = 10 /\ lastOff = 30)
        => /\ branchTarget = 25 => result = "True"
           /\ branchTarget = 30 => result = "False"
           /\ branchTarget = 5 => result = "False"

C2_Witness ==
    /\ Done /\ InVariantB
    /\ Len(tokens) = 3 /\ first = 0 /\ last = 2 /\ lastAdj = 2
    /\ At(tokens, 1).kind = "JUMP_BACK"
    /\ branchTarget = 30 /\ result = "False"

\* C3 as stated: in Variant B a target before the first token's offset, or
\* equal to the last token's offset, is always accepted.
C3_AsStated ==
    (Done /\ InVariantB /\ (branchTarget < firstOff \/ branchTarget = lastOff))
        => result = "False"

\* C3 amended: such a target is accepted exactly when neither refinement (a)
\* nor refinement (b) fires and the chained-and rule does not reject.
C3_Exceptions ==
    (Done /\ InVariantB /\ (branchTarget < firstOff \/ branchTarget = lastOff))
        => (result = "False" <=>
               /\ ~refinementA
               /\ ~(refinementB /\ At(tokens, lastAdj - 1).kind # "JUMP_BACK")
               /\ ~(chained /\ sameJoin))

C3_Witness ==
    /\ Done /\ InVariantB
    /\ branchTarget = lastOff
    /\ tokenBeyond /\ At(tokens, lastAdj - 1).kind = "JUMP_BACK"
    /\ ~refinementB /\ ~chained
    /\ result = "True"

\* the instruction before the first instruction of the body, by its index
bodyStart == CHOOSE k \in 0..(Len(insts) - 1) : At(insts, k).offset = ast[2].first_offset
jumpOut == At(insts, bodyStart - 1)

\* Variant A applies and the jump out of the test is an absolute jump
variantAJump == rule = RuleA /\ jumpOut.optype = "jabs"

\* an instruction from the body start on, below the target, jumps to the target
otherJump ==
    \E k \in bodyStart..(Len(insts) - 1) :
        /\ At(insts, k).offset < jumpOut.argval
        /\ At(insts, k).optype \in {"jabs", "jrel"}
        /\ At(insts, k).argval = jumpOut.argval

\* the instruction array reaches the target: the scan can stop at line 47
reachesTarget ==
    \E k \in bodyStart..(Len(insts) - 1) : At(insts, k).offset >= jumpOut.argval

\* C4 as stated: in Variant A a jump whose target is the offset of the token
\* at the adjusted last index accepts the reduction, whatever the test is.
C4_AsStated ==
    (Done /\ variantAJump /\ jumpOut.argval = lastOff) => result = "False"

\* C4 amended: with a matching target Variant A decides nothing: no scan is
\* made, the checks of the test expression follow, and the reduction is
\* accepted when the test expression's first child is none of
\* testtrue/testtruec/testfalse/testfalsec.
C4_MatchFallsThrough ==
    (Done /\ variantAJump /\ jumpOut.argval = lastOff)
        => /\ "L47" \notin seen
           /\ "L56" \in seen
           /\ test.kind \notin {"testtrue", "testtruec", "testfalse", "testfalsec"}
                  => result = "False"

C4_Witness ==
    /\ Done /\ variantAJump /\ jumpOut.argval = lastOff
    /\ test.kind = "testexprc"
    /\ result = "False"

\* C5 as stated: with a non-matching target, another jump to the same
\* target rejects and the absence of one accepts.
C5_AsStated ==
    (Done /\ variantAJump /\ jumpOut.argval # lastOff)
        => /\ otherJump => result = "True"
           /\ ~otherJump => result = "False"

\* C5 amended: with a non-matching target, another jump to the same target
\* accepts (False); when there is none and the scan reaches an instruction at
\* or past the target, the reduction is rejected (True).
C5_ScanResult ==
    (Done /\ variantAJump /\ jumpOut.argval # lastOff)
        => /\ otherJump => result = "False"
           /\ (~otherJump /\ reachesTarget) => result = "True"

\* the other jump is a relative one, found after one instruction was skipped
C5_Witness ==
    /\ Done /\ variantAJump /\ jumpOut.argval # lastOff
    /\ otherJump
    /\ ~(At(insts, bodyStart).optype \in {"jabs", "jrel"})
    /\ \A k \in bodyStart..(Len(insts) - 1) : At(insts, k).optype # "jabs"
    /\ result = "False"

\* C6 as stated: after a POP_JUMP_IF_FALSE token the reduction is accepted
\* exactly when that token's target equals the branch target.
C6_AsStated ==
    (Done /\ "L90" \in seen /\ chained) => (result = "False" <=> sameJoin)

\* C6 amended: after a POP_JUMP_IF_FALSE token the reduction is rejected
\* (True) exactly when that token's target equals the branch target, and
\* accepted (False) otherwise.
C6_ChainedAnd ==
    (Done /\ "L90" \in seen /\ chained) => (result = "True" <=> sameJoin)

C6_Witness ==
    /\ Done /\ "L90" \in seen /\ chained /\ sameJoin
    /\ result = "True"

\* C7 as stated: a COME_FROM_LOOP after last, with last not a BREAK_LOOP,
\* rejects whatever the token before last is.
C7_AsStated ==
    (Done /\ InVariantB /\ refinementB) => result = "True"

\* C7 amended: it rejects unless the token at index last - 1 is JUMP_BACK
\* and the branch target is not greater than the first token's offset.
C7_LoopExit ==
    (/\ Done /\ InVariantB /\ refinementB
     /\ ~(At(tokens, lastAdj - 1).kind = "JUMP_BACK" /\ branchTarget <= firstOff))
        => result = "True"

\* refinement (b) itself decides: the target is not in the span
C7_Witness ==
    /\ Done /\ InVariantB /\ refinementB
    /\ At(tokens, lastAdj - 1).kind # "JUMP_BACK"
    /\ ~(firstOff <= branchTarget /\ branchTarget < lastOff)
    /\ result = "True"

\* C8: with a token beyond last, JUMP_BACK before last and a branch target
\* greater than the first token's offset, the reduction is rejected; with no
\* token beyond last the refinement is not applied: such a window is accepted
\* when neither the containment test nor the chained-and rule decides.
C8_BackwardJump ==
    (Done /\ InVariantB)
        => /\ refinementA => result = "True"
           /\ (/\ ~tokenBeyond
               /\ ~(firstOff <= branchTarget /\ branchTarget < lastOff)
               /\ ~chained) => result = "False"

\* refinement (a) itself decides: the target is not in the span
C8_Witness ==
    /\ Done /\ InVariantB /\ refinementA
    /\ ~(firstOff <= branchTarget /\ branchTarget < lastOff)
    /\ result = "True"

\* C9 as stated: a test node with one child, an and/or node, under a rule
\* with right-hand side (testexpr, stmts) is rejected at once.
C9_AsStated ==
    (/\ Done
     /\ test.kind \in {"testtrue", "testtruec", "testfalse", "testfalsec"}
     /\ Len(test.children) = 1
     /\ test.children[1].kind \in {"and", "nand", "or"}
     /\ rule[2] = <<"testexpr", "stmts">>)
        => result = "True"

\* C9 amended: when Variant A has not returned, a test node with one child,
\* an and or nand node, under a rule with right-hand side (testexpr, stmts)
\* is rejected before any conditional-branch target is inspected.
C9_BareAnd ==
    (/\ Done /\ "L56" \in seen
     /\ test.kind \in {"testtrue", "testtruec", "testfalse", "testfalsec"}
     /\ Len(test.children) = 1
     /\ test.children[1].kind \in {"and", "nand"}
     /\ rule[2] = <<"testexpr", "stmts">>)
        => result = "True" /\ ~InVariantB

C9_Witness ==
    /\ Done /\ "L56" \in seen
    /\ test.kind = "testfalse"
    /\ Len(test.children) = 1
    /\ test.children[1].kind = "nand"
    /\ rule = RuleC
    /\ result = "True"

\* C10: a call leaves rule, ast, the instruction array, tokens, first and
\* last as they were, and a second call on them returns what the first did.
C10_Pure ==
    [][/\ inputs' = inputs
       /\ (calls' = 2 /\ pc' = "done") => result' = prev']_vars

\* a second call has returned on a window whose end marker was skipped
C10_Witness ==
    /\ Done /\ calls = 2
    /\ At(tokens, last).kind = "RETURN_LAST"
    /\ result = "True" /\ prev = "True"

(***************************************************************************)
(* SourceWalker output: write, println, traverse (pysource.py 426-487).    *)
(* A string is the sequence of its characters; the arguments of a call are *)
(* a tuple of strings.                                                     *)
(***************************************************************************)
MaxOps == 5
MaxDepth == 2

NL == "\n"
TAB == <<" ", " ", " ", " ">>

Max(a, b) == IF a >= b THEN a ELSE b

\* "\n" * k
Newlines(k) == [j \in 1..k |-> NL]

\* "".join(str(j) for j in data)
RECURSIVE Join(_)
Join(data) == IF data = <<>> THEN <<>> ELSE Head(data) \o Join(Tail(data))

\* number of newlines the text starts with (the first loop of write)
RECURSIVE Leading(_)
Leading(out) ==
    IF out # <<>> /\ Head(out) = NL THEN 1 + Leading(Tail(out)) ELSE 0

\* number of newlines the text ends with (the loop over out[::-1])
RECURSIVE Trailing(_)
Trailing(out) ==
    IF out # <<>> /\ out[Len(out)] = NL
    THEN 1 + Trailing(SubSeq(out, 1, Len(out) - 1))
    ELSE 0

\* lines 453, 485: no argument, or the single argument ""
NothingToWrite(data) == Len(data) = 0 \/ (Len(data) = 1 /\ data[1] = <<>>)

write_sum(f, pending, data) ==
    IF NothingToWrite(data)
    THEN [f |-> f, pending |-> pending]
    ELSE LET out == Join(data)
             lead == Leading(out)
         IN  IF Len(out) > 0 /\ lead = Len(out)
             THEN [f |-> f, pending |-> pending + lead]
             ELSE LET raised == pending + lead
                      rest == SubSeq(out, lead + 1, Len(out))
                      trail == Trailing(rest)
                  IN  [f |-> f \o Newlines(raised)
                               \o SubSeq(rest, 1, Len(rest) - trail),
                       pending |-> trail]

\* lines 452-482: the buffer and the pending count after self.write(*data)
write(f, pending, data) ==
    IF NothingToWrite(data)
    THEN [f |-> f, pending |-> pending]
    ELSE LET out == Join(data)
             lead == Leading(out)
         IN  IF Len(out) > 0 /\ lead = Len(out)
             THEN [f |-> f, pending |-> Max(pending, lead)]
             ELSE LET raised == IF lead > 0 THEN Max(pending, lead) ELSE pending
                      rest == SubSeq(out, lead + 1, Len(out))
                      trail == Trailing(rest)
                  IN  [f |-> f \o Newlines(raised)
                               \o SubSeq(rest, 1, Len(rest) - trail),
                       pending |-> trail]

\* lines 484-487: the same after self.println(*data)
println(f, pending, data) ==
    LET w == IF NothingToWrite(data)
             THEN [f |-> f, pending |-> pending]
             ELSE write(f, pending, data)
    IN  [f |-> w.f, pending |-> Max(w.pending, 1)]

\* argument tuples the handlers pass: write(sep, value) with both empty
\* (lines 1682, 1749, 2056), a word, newlines, and mixtures
WriteData ==
    { <<<<>>, <<>>>>, <<<<"a">>>>, <<<<NL>>>>, <<<<NL, NL>>>>,
      <<<<"a">>, <<NL>>>>, <<<<NL>>, <<"a">>>> }

PrintlnData == { <<>>, <<<<"a">>>> }

FreshParams(indent, is_lambda) ==
    [f |-> <<>>, indent |-> indent, is_lambda |-> is_lambda, globals |-> {}]

InitWrite ==
    /\ IfIdle
    /\ LateIdle
    /\ DeparseIdle
    /\ PrecIdle
    /\ DocIdle
    /\ TableIdle
    /\ params = FreshParams(<<>>, FALSE)
    /\ param_stack = <<>>
    /\ pending_newlines = 0
    /\ frames = <<>>
    /\ log = <<>>
    /\ ret = <<>>
    /\ nops = 0

Called(op, data) == log' = Append(log, [op |-> op, data |-> data])

\* self.write(*data)
Write ==
    /\ nops < MaxOps
    /\ \E data \in WriteData :
         LET w == write(params.f, pending_newlines, data)
         IN  /\ params' = [params EXCEPT !.f = w.f]
             /\ pending_newlines' = w.pending
             /\ Called("write", data)
    /\ nops' = nops + 1
    /\ UNCHANGED <<param_stack, frames, ret>>
    /\ UNCHANGED notWrite

\* self.println(*data)
Println ==
    /\ nops < MaxOps
    /\ \E data \in PrintlnData :
         LET w == println(params.f, pending_newlines, data)
         IN  /\ params' = [params EXCEPT !.f = w.f]
             /\ pending_newlines' = w.pending
             /\ Called("println", data)
    /\ nops' = nops + 1
    /\ UNCHANGED <<param_stack, frames, ret>>
    /\ UNCHANGED notWrite

\* lines 426-427: self.indent_more()
IndentMore ==
    /\ nops < MaxOps
    /\ params' = [params EXCEPT !.indent = @ \o TAB]
    /\ nops' = nops + 1
    /\ UNCHANGED <<param_stack, pending_newlines, frames, log, ret>>
    /\ UNCHANGED notWrite

\* what traverse finds when it is called
Entry ==
    [params |-> params, pending |-> pending_newlines,
     depth |-> Len(param_stack), log |-> log]

\* lines 432-444: traverse up to the call of preorder; indent=None takes
\* the caller's indent
TraverseEnter ==
    /\ nops < MaxOps
    /\ Len(frames) < MaxDepth
    /\ \E is_lambda \in BOOLEAN, indent \in {params.indent, <<>>} :
         params' = FreshParams(indent, is_lambda)
    /\ param_stack' = Append(param_stack, params)
    /\ frames' = Append(frames, [p |-> pending_newlines, entry |-> Entry])
    /\ pending_newlines' = 0
    /\ log' = <<>>
    /\ nops' = nops + 1
    /\ UNCHANGED ret
    /\ UNCHANGED notWrite

TraverseExit_keep ==
    /\ frames # <<>>
    /\ ret' = <<[text |-> params.f \o Newlines(pending_newlines), log |-> log,
                entry |-> frames[Len(frames)].entry]>>
    /\ params' = param_stack[Len(param_stack)]
    /\ param_stack' = SubSeq(param_stack, 1, Len(param_stack) - 1)
    /\ pending_newlines' = pending_newlines
    /\ log' = frames[Len(frames)].entry.log
    /\ frames' = SubSeq(frames, 1, Len(frames) - 1)
    /\ UNCHANGED nops
    /\ UNCHANGED notWrite

\* lines 445-450: traverse after preorder returned
TraverseExit ==
    /\ frames # <<>>
    /\ ret' = <<[text |-> params.f \o Newlines(pending_newlines), log |-> log,
                entry |-> frames[Len(frames)].entry]>>
    /\ params' = param_stack[Len(param_stack)]
    /\ param_stack' = SubSeq(param_stack, 1, Len(param_stack) - 1)
    /\ pending_newlines' = frames[Len(frames)].p
    /\ log' = frames[Len(frames)].entry.log
    /\ frames' = SubSeq(frames, 1, Len(frames) - 1)
    /\ UNCHANGED nops
    /\ UNCHANGED notWrite

NextWrite ==
    \/ Write
    \/ Println
    \/ IndentMore
    \/ TraverseEnter
    \/ TraverseExit

SpecWrite == InitWrite /\ [][NextWrite]_vars

(***************************************************************************)
(* Properties of write, println and traverse.                              *)
(***************************************************************************)
Returned == ret # <<>>

\* the calls of a scope: write("\n\n"), write("a"), write("\n"), write("\n")
CoalescingCalls ==
    << [op |-> "write", data |-> <<<<NL, NL>>>>],
       [op |-> "write", data |-> <<<<"a">>>>],
       [op |-> "write", data |-> <<<<NL>>>>],
       [op |-> "write", data |-> <<<<NL>>>>] >>

CoalescingExample == Returned /\ ret[1].log = CoalescingCalls

\* C11 as stated: two newlines, "a", one newline and one newline written
\* into the empty buffer of a traverse give "\n\na\n\n" when traverse
\* returns.
C11_AsStated ==
    CoalescingExample => ret[1].text = <<NL, NL, "a", NL, NL>>

\* C11 amended: the same four writes give two newlines, "a" and one newline;
\* the two single newlines after "a" coalesce into one.
C11_Coalesced ==
    CoalescingExample => ret[1].text = <<NL, NL, "a", NL>>

C11_Witness ==
    CoalescingExample /\ ret[1].entry.params.f = <<>> /\ Len(ret[1].text) = 4

\* What the calls of a scope ask for: the text fragments, each run of
\* newlines between two fragments the largest of the counts requested
\* between them, and the run requested after the last fragment.
RECURSIVE Requested(_)
Requested(calls_) ==
    IF calls_ = <<>>
    THEN [text |-> <<>>, run |-> 0]
    ELSE LET before == Requested(SubSeq(calls_, 1, Len(calls_) - 1))
             call == calls_[Len(calls_)]
             out == Join(call.data)
             lead == Leading(out)
             tail == IF lead = Len(out) THEN 0 ELSE Trailing(out)
             one == IF call.op = "println" THEN 1 ELSE 0
         IN  IF lead = Len(out)
             THEN [text |-> before.text,
                   run |-> Max(Max(before.run, lead), one)]
             ELSE [text |-> before.text \o Newlines(Max(before.run, lead))
                              \o SubSeq(out, lead + 1, Len(out) - tail),
                   run |-> Max(tail, one)]

\* a call that writes a text fragment: some character is not a newline
Fragment(call) == \E k \in 1..Len(Join(call.data)) : Join(call.data)[k] # NL

BetweenFragments == log # <<>> /\ Fragment(log[1]) /\ Fragment(log[Len(log)])

\* C12: when the calls of a scope begin and end with a text fragment, the
\* buffer with its pending newlines holds the fragments with, between two
\* consecutive ones, a run of newlines that is the maximum of the counts
\* the calls between them requested, never their sum.
C12_MaxOfRequests ==
    BetweenFragments =>
        params.f \o Newlines(pending_newlines)
            = Requested(log).text \o Newlines(Requested(log).run)

\* C20: traverse starts on an empty buffer with no pending newline, and
\* when it returns the scope stack depth, the scope's params and the
\* pending count are what they were when it was called, at any nesting.
C20_ScopeIsolation ==
    [][ /\ Len(frames') > Len(frames) =>
             /\ params'.f = <<>>
             /\ pending_newlines' = 0
        /\ Len(frames') < Len(frames) =>
             /\ Len(param_stack') = frames[Len(frames)].entry.depth
             /\ params' = frames[Len(frames)].entry.params
             /\ pending_newlines' = frames[Len(frames)].entry.pending ]_vars

C20_Witness ==
    /\ Returned
    /\ frames # <<>>
    /\ ret[1].text # <<>>
    /\ ret[1].entry.params.f # <<>>
    /\ ret[1].entry.pending > 0
    /\ params = ret[1].entry.params
    /\ pending_newlines = ret[1].entry.pending
    /\ Len(param_stack) = ret[1].entry.depth

(***************************************************************************)
(* Precedence: the handlers that assign self.prec (pysource.py 505-654,    *)
(* 1103-1506).  A handler runs in the frame on top of kstack; a handler    *)
(* ends with prune(), which finishes the render of its node.               *)
(***************************************************************************)
MaxNest == 3
PRECEDENCE_yield == 38

\* line 539, 541: PRECEDENCE.get(n.kind, -2), or 6 for a negative constant
PRECEDENCE == {-2, 6, PRECEDENCE_yield, 100}

Frame(h, at, left, direct) ==
    [h |-> h, at |-> at, p |-> prec, entry |-> prec, left |-> left,
     direct |-> direct]

Top == kstack[Len(kstack)]

SetTop(fr) == [kstack EXCEPT ![Len(kstack)] = fr]

\* handlers that preorder reaches from a statement
TopHandlers == {"n_expr", "n_return_expr"}

\* handlers that preorder reaches from a child of the handler h
ChildHandlers(h) ==
    IF h = "n_expr"
    THEN {"n_bin_op", "n_slice2", "comprehension_walk_newer"}
    ELSE {"n_expr"}

InitPrec ==
    /\ IfIdle
    /\ LateIdle
    /\ DeparseIdle
    /\ WriteIdle
    /\ DocIdle
    /\ TableIdle
    /\ prec = 100
    /\ kstack = <<>>
    /\ fin = <<>>

\* preorder(node) from a statement handler, e.g. n_return line 599
RenderTop ==
    /\ kstack = <<>>
    /\ \E h \in TopHandlers : kstack' = <<Frame(h, "start", 0, FALSE)>>
    /\ UNCHANGED <<prec, fin>>
    /\ UNCHANGED notPrec

\* self.preorder(child) inside a handler
RenderChild ==
    /\ kstack # <<>>
    /\ Top.at = "children"
    /\ Top.left > 0
    /\ Len(kstack) < MaxNest
    /\ \E h \in ChildHandlers(Top.h) :
         kstack' = Append(SetTop([Top EXCEPT !.left = @ - 1]),
                          Frame(h, "start", 0, FALSE))
    /\ UNCHANGED <<prec, fin>>
    /\ UNCHANGED notPrec

\* a child that is a token, or one whose handler leaves self.prec alone
RenderLeaf ==
    /\ kstack # <<>>
    /\ Top.at = "children"
    /\ Top.left > 0
    /\ kstack' = SetTop([Top EXCEPT !.left = @ - 1])
    /\ UNCHANGED <<prec, fin>>
    /\ UNCHANGED notPrec

\* prune(): the render of the node ends; a handler called directly by
\* another one ends the render of that one's node
Finish(exit) ==
    LET node == IF Top.direct THEN kstack[Len(kstack) - 1] ELSE Top
        depth == IF Top.direct THEN Len(kstack) - 2 ELSE Len(kstack) - 1
    IN  /\ kstack' = SubSeq(kstack, 1, depth)
        /\ fin' = <<[h |-> node.h, entry |-> node.entry, exit |-> exit]>>
        /\ prec' = exit

\* lines 527-541
N_expr ==
    /\ kstack # <<>>
    /\ Top.h = "n_expr"
    /\ Top.at = "start"
    /\ \E v \in PRECEDENCE : prec' = v
    /\ kstack' = SetTop([Top EXCEPT !.p = prec, !.at = "children", !.left = 1])
    /\ UNCHANGED fin
    /\ UNCHANGED notPrec

\* lines 546-554
N_expr_prune ==
    /\ kstack # <<>>
    /\ Top.h = "n_expr"
    /\ Top.at = "children"
    /\ Top.left = 0
    /\ Finish(Top.p)
    /\ UNCHANGED notPrec

\* lines 605-611: self.n_expr(...) is a direct call
N_return_expr ==
    /\ kstack # <<>>
    /\ Top.h = "n_return_expr"
    /\ Top.at = "start"
    /\ \E single_expr \in BOOLEAN :
         /\ prec' = IF single_expr THEN PRECEDENCE_yield - 1 ELSE prec
         /\ kstack' = Append(SetTop([Top EXCEPT !.at = "n_expr"]),
                             [Frame("n_expr", "start", 0, TRUE)
                                EXCEPT !.entry = prec', !.p = prec'])
    /\ UNCHANGED fin
    /\ UNCHANGED notPrec

\* lines 507-508: the two operands
N_bin_op ==
    /\ kstack # <<>>
    /\ Top.h = "n_bin_op"
    /\ Top.at = "start"
    /\ kstack' = SetTop([Top EXCEPT !.at = "children", !.left = 2])
    /\ UNCHANGED <<prec, fin>>
    /\ UNCHANGED notPrec

\* lines 510-512: the operator is rendered one level lower
N_bin_op_lower ==
    /\ kstack # <<>>
    /\ Top.h = "n_bin_op"
    /\ Top.at = "children"
    /\ Top.left = 0
    /\ prec' = prec - 1
    /\ kstack' = SetTop([Top EXCEPT !.at = "operator"])
    /\ UNCHANGED fin
    /\ UNCHANGED notPrec

\* lines 513-514
N_bin_op_prune ==
    /\ kstack # <<>>
    /\ Top.h = "n_bin_op"
    /\ Top.at = "operator"
    /\ Finish(prec + 1)
    /\ UNCHANGED notPrec

\* lines 631-637: each bound is rendered unless it is None
N_slice2 ==
    /\ kstack # <<>>
    /\ Top.h = "n_slice2"
    /\ Top.at = "start"
    /\ prec' = 100
    /\ \E bounds \in 0..2 :
         kstack' = SetTop([Top EXCEPT !.p = prec, !.at = "children",
                                      !.left = bounds])
    /\ UNCHANGED fin
    /\ UNCHANGED notPrec

\* lines 638-639
N_slice2_prune ==
    /\ kstack # <<>>
    /\ Top.h = "n_slice2"
    /\ Top.at = "children"
    /\ Top.left = 0
    /\ Finish(Top.p)
    /\ UNCHANGED notPrec

\* lines 1469, 1503-1505: self.prec after get_comprehension_function
get_comprehension_function == {27, 100}

\* lines 1115-1141: p is saved, then the tree is the node itself or the
\* body that get_comprehension_function builds
Comprehension_walk_newer ==
    /\ kstack # <<>>
    /\ Top.h = "comprehension_walk_newer"
    /\ Top.at = "start"
    /\ \E v \in get_comprehension_function \cup {prec} : prec' = v
    /\ kstack' = SetTop([Top EXCEPT !.p = prec, !.at = "tree"])
    /\ UNCHANGED fin
    /\ UNCHANGED notPrec

\* lines 1234-1235: n.kind == "return_expr_lambda"
Comprehension_prune ==
    /\ kstack # <<>>
    /\ Top.h = "comprehension_walk_newer"
    /\ Top.at = "tree"
    /\ Finish(prec)
    /\ UNCHANGED notPrec

\* lines 1338-1441: the body, the store, the collection and the conditions
Comprehension_render ==
    /\ kstack # <<>>
    /\ Top.h = "comprehension_walk_newer"
    /\ Top.at = "tree"
    /\ prec' = 27
    /\ \E parts \in 1..2 :
         kstack' = SetTop([Top EXCEPT !.at = "children", !.left = parts])
    /\ UNCHANGED fin
    /\ UNCHANGED notPrec

\* line 1444, then the prune() of the calling handler
Comprehension_return ==
    /\ kstack # <<>>
    /\ Top.h = "comprehension_walk_newer"
    /\ Top.at = "children"
    /\ Top.left = 0
    /\ Finish(Top.p)
    /\ UNCHANGED notPrec

NextPrec ==
    \/ RenderTop
    \/ RenderChild
    \/ RenderLeaf
    \/ N_expr
    \/ N_expr_prune
    \/ N_return_expr
    \/ N_bin_op
    \/ N_bin_op_lower
    \/ N_bin_op_prune
    \/ N_slice2
    \/ N_slice2_prune
    \/ Comprehension_walk_newer
    \/ Comprehension_prune
    \/ Comprehension_render
    \/ Comprehension_return

SpecPrec == InitPrec /\ [][NextPrec]_vars

Finished == fin # <<>>

\* C13: when the render of a node finishes, through prune() too, self.prec
\* is what it was immediately before the render of that node started.
C13_PrecRestored == Finished => fin[1].exit = fin[1].entry

(***************************************************************************)
(* n_docstring (pysource.py 875-956).                                      *)
(***************************************************************************)
MaxDoc == 5

DQ == "\""
SQ == "'"
BS == "\\"
HT == "\t"
CR == "\r"

\* the characters of a docstring: a letter, both quotes, newline, backslash
DocChars == {"x", DQ, SQ, NL, BS}

RECURSIVE StringsUpTo(_)
StringsUpTo(k) ==
    IF k = 0 THEN {<<>>}
    ELSE LET shorter == StringsUpTo(k - 1)
         IN  shorter \cup {Append(s, c) : s \in shorter, c \in DocChars}

\* str.find(sub) >= 0
Contains(s, sub) ==
    \E k \in 1..(Len(s) - Len(sub) + 1) : SubSeq(s, k, k + Len(sub) - 1) = sub

\* str.replace(orig, repl): left to right, occurrences do not overlap
RECURSIVE Replace(_, _, _)
Replace(s, orig, repl) ==
    IF Len(s) < Len(orig) THEN s
    ELSE IF SubSeq(s, 1, Len(orig)) = orig
         THEN repl \o Replace(SubSeq(s, Len(orig) + 1, Len(s)), orig, repl)
         ELSE <<Head(s)>> \o Replace(Tail(s), orig, repl)

\* str.expandtabs(): a tab becomes spaces up to the next multiple of 8
RECURSIVE ExpandTabs(_, _)
ExpandTabs(s, col) ==
    IF s = <<>> THEN <<>>
    ELSE IF Head(s) = HT
         THEN [j \in 1..(8 - (col % 8)) |-> " "] \o ExpandTabs(Tail(s), 0)
         ELSE <<Head(s)>>
                \o ExpandTabs(Tail(s), IF Head(s) \in {NL, CR} THEN 0 ELSE col + 1)

\* repr(s)[1:-1]: repr quotes with ' unless s has a ' and no "; it escapes
\* the backslash, the control characters and the quote it uses
RECURSIVE Escaped(_, _)
Escaped(s, q) ==
    IF s = <<>> THEN <<>>
    ELSE LET c == Head(s)
             e == IF c = BS THEN <<BS, BS>>
                  ELSE IF c = NL THEN <<BS, "n">>
                  ELSE IF c = CR THEN <<BS, "r">>
                  ELSE IF c = HT THEN <<BS, "t">>
                  ELSE IF c = q THEN <<BS, q>>
                  ELSE <<c>>
         IN  e \o Escaped(Tail(s), q)

ReprBody(s) ==
    Escaped(s, IF Contains(s, <<SQ>>) /\ ~Contains(s, <<DQ>>) THEN DQ ELSE SQ)

TripleDQ == <<DQ, DQ, DQ>>
TripleSQ == <<SQ, SQ, SQ>>

Quote_any(docstring) ==
    IF Contains(docstring, <<DQ>>) /\ ~Contains(docstring, TripleSQ)
    THEN TripleSQ
    ELSE TripleDQ

\* lines 890-893
Quote(docstring) ==
    IF Contains(docstring, TripleDQ) /\ ~Contains(docstring, TripleSQ)
    THEN TripleSQ
    ELSE TripleDQ

\* lines 896-906
Unescaped(docstring) ==
    LET r0 == ReprBody(ExpandTabs(docstring, 0))
        r1 == Replace(r0, <<BS, BS>>, <<HT>>)
        r2 == Replace(r1, <<BS, "r", BS, "n">>, <<NL>>)
        r3 == Replace(r2, <<BS, "n">>, <<NL>>)
        r4 == Replace(r3, <<BS, "r">>, <<NL>>)
        r5 == Replace(r4, <<BS, DQ>>, <<DQ>>)
    IN  Replace(r5, <<BS, SQ>>, <<SQ>>)

\* lines 910-916
IsRaw(d) ==
    /\ Contains(d, <<HT>>)
    /\ ~Contains(d, <<BS>>)
    /\ Len(d) >= 2
    /\ d[Len(d)] # HT
    /\ (d[Len(d)] # DQ \/ d[Len(d) - 1] = HT)

\* lines 917-935: the text between the delimiters
Body(d, quote) ==
    IF IsRaw(d)
    THEN Replace(d, <<HT>>, <<BS>>)
    ELSE LET quote1 == quote[3]
             d1 == IF Len(d) > 0 /\ d[Len(d)] = quote1
                   THEN SubSeq(d, 1, Len(d) - 1) \o <<BS, quote1>>
                   ELSE d
             d2 == Replace(d1, quote, <<BS>> \o quote)
         IN  Replace(d2, <<HT>>, <<BS, BS>>)

\* str.split("\n")
RECURSIVE Split(_)
Split(s) ==
    IF ~Contains(s, <<NL>>) THEN <<s>>
    ELSE LET k == CHOOSE j \in 1..Len(s) :
                    s[j] = NL /\ \A h \in 1..(j - 1) : s[h] # NL
         IN  <<SubSeq(s, 1, k - 1)>> \o Split(SubSeq(s, k + 1, Len(s)))

Call(op, data) == [op |-> op, data |-> data]

\* lines 945-949
MiddleLines(lines) ==
    [k \in 1..(Len(lines) - 2) |->
        IF lines[k + 1] # <<>>
        THEN Call("println", <<lines[k + 1]>>)
        ELSE Call("println", <<<<NL, NL>>>>)]

\* lines 895, 917, 937-954: the calls n_docstring makes for a str
DocCalls(docstring, indent) ==
    LET quote == Quote(docstring)
        d == Unescaped(docstring)
        lines == Split(Body(d, quote))
    IN  <<Call("write", <<indent>>)>>
        \o (IF IsRaw(d) THEN <<Call("write", <<<<"r">>>>)>> ELSE <<>>)
        \o <<Call("write", <<quote>>)>>
        \o (IF Len(lines) = 0 THEN <<Call("println", <<quote>>)>>
            ELSE IF Len(lines) = 1 THEN <<Call("println", <<lines[1], quote>>)>>
            ELSE <<Call("println", <<lines[1]>>)>>
                   \o MiddleLines(lines)
                   \o <<Call("println", <<lines[Len(lines)], quote>>)>>)

\* the buffer and the pending count after a sequence of calls
RECURSIVE Run(_, _)
Run(calls_, st) ==
    IF calls_ = <<>> THEN st
    ELSE LET c == Head(calls_)
         IN  Run(Tail(calls_),
                 IF c.op = "write" THEN write(st.f, st.pending, c.data)
                 ELSE println(st.f, st.pending, c.data))

InitDoc ==
    /\ IfIdle
    /\ LateIdle
    /\ DeparseIdle
    /\ PrecIdle
    /\ TableIdle
    /\ \E s \in StringsUpTo(MaxDoc), is_str \in BOOLEAN :
         doc_node = [attr |-> s, pattr |-> s, is_str |-> is_str]
    /\ \E indent \in {<<>>, TAB} : params = FreshParams(indent, FALSE)
    /\ param_stack = <<>>
    /\ pending_newlines = 0
    /\ frames = <<>>
    /\ log = <<>>
    /\ ret = <<>>
    /\ nops = 0

\* lines 875-956
N_docstring ==
    /\ nops = 0
    /\ LET docstring == IF doc_node.attr # <<>> THEN doc_node.attr
                        ELSE doc_node.pattr
           calls_ == IF doc_node.attr # <<>> /\ ~doc_node.is_str THEN <<>>
                     ELSE DocCalls(docstring, params.indent)
           st == Run(calls_, [f |-> params.f, pending |-> pending_newlines])
       IN  /\ params' = [params EXCEPT !.f = st.f]
           /\ pending_newlines' = st.pending
           /\ log' = log \o calls_
    /\ nops' = 1
    /\ UNCHANGED <<doc_node, param_stack, frames, ret>>
    /\ UNCHANGED notDoc

NextDoc == N_docstring

SpecDoc == InitDoc /\ [][NextDoc]_vars

\* the docstring was a str and n_docstring has rendered it
Rendered == nops = 1 /\ doc_node.is_str

\* number of newline characters of a text
RECURSIVE LineBreaks(_)
LineBreaks(s) ==
    IF s = <<>> THEN 0
    ELSE (IF Head(s) = NL THEN 1 ELSE 0) + LineBreaks(Tail(s))

\* the text starts, after the indent, with the delimiter q and ends with it
Delimited(text, indent, q) ==
    /\ Len(text) >= Len(indent) + 6
    /\ SubSeq(text, Len(indent) + 1, Len(indent) + 3) = q
    /\ SubSeq(text, Len(text) - 2, Len(text)) = q

\* He said "hi" and a newline, each letter written x
HeSaidHi == <<"x", DQ, "x", DQ, NL>>

\* C14 as stated: the docstring He said "hi" and a newline is opened and
\* closed with the delimiter '''.
C14_AsStated ==
    (Rendered /\ doc_node.attr = HeSaidHi) =>
        Delimited(params.f, params.indent, TripleSQ)

\* C14 amended: that docstring, which holds no """, is opened and closed
\* with """; and whenever a docstring is opened and closed with ''' its
\* content holds """ and no '''.
C14_QuoteStyle ==
    /\ (Rendered /\ doc_node.attr = HeSaidHi) =>
           Delimited(params.f, params.indent, TripleDQ)
    /\ (Rendered /\ Delimited(params.f, params.indent, TripleSQ)
          /\ ~Delimited(params.f, params.indent, TripleDQ)) =>
           /\ \E k \in 1..(Len(doc_node.attr) - 2) :
                  SubSeq(doc_node.attr, k, k + 2) = TripleDQ
           /\ ~\E k \in 1..(Len(doc_node.attr) - 2) :
                  SubSeq(doc_node.attr, k, k + 2) = TripleSQ

C14_Witness ==
    /\ Rendered
    /\ doc_node.attr = HeSaidHi
    /\ params.f = TripleDQ \o <<"x", DQ, "x", DQ, NL>> \o TripleDQ

\* C15: for every docstring content the rendered literal has as many line
\* breaks between its delimiters as the content has newline characters.
C15_NewlineRoundTrip ==
    Rendered => LineBreaks(params.f) = LineBreaks(doc_node.attr)

(***************************************************************************)
(* customize and the table TABLE_R (pysource.py 165, 2325-2409).  TABLE_R  *)
(* is a name of the module, imported once; every SourceWalker reads and    *)
(* writes the same dict.  A key is the tuple of the parts that "_" joins.  *)
(***************************************************************************)
MaxCustomize == 1
MaxKeys == 2

Walkers == {1, 2}

Versions == {<<3, 4>>, <<3, 5>>, <<3, 7>>}

CALL_FUNCTION == <<"CALL", "FUNCTION">>
CALL_FUNCTION_VAR == <<"CALL", "FUNCTION", "VAR">>
CALL_FUNCTION_KW == <<"CALL", "FUNCTION", "KW">>
CALL_FUNCTION_VAR_KW == <<"CALL", "FUNCTION", "VAR", "KW">>

\* customize keys: an opcode name and its operand
Keys ==
    { <<"CALL", "METHOD", "1">>, <<"CALL", "FUNCTION", "1">>,
      <<"CALL", "FUNCTION", "KW", "1">>, <<"CALL", "FUNCTION", "VAR", "0">>,
      <<"CALL", "FUNCTION", "VAR", "1">>,
      <<"CALL", "FUNCTION", "VAR", "KW", "0">>,
      <<"CALL", "FUNCTION", "VAR", "KW", "256">>, <<"BUILD", "LIST", "2">> }

\* the value of a key is the operand its name ends with; the low byte of
\* the operand counts the positional arguments
Operand(k) ==
    LET digits == k[Len(k)]
    IN  IF digits = "0" THEN 0
        ELSE IF digits = "1" THEN 1
        ELSE IF digits = "2" THEN 2
        ELSE 256

\* the dicts a code object's scan hands to customize
Customizations ==
    { [k \in ks |-> Operand(k)] :
        ks \in {c \in SUBSET Keys : Cardinality(c) \in 1..MaxKeys} }

\* k.startswith(prefix)
StartsWith(k, prefix) ==
    Len(k) >= Len(prefix) /\ SubSeq(k, 1, Len(prefix)) = prefix

\* line 2333: k[: k.rfind("_")]
OpOf(k) == SubSeq(k, 1, Len(k) - 1)

Template(str_, args) == [str |-> str_, args |-> args]

P2_none == "(0, 0, None)"

\* lines 2354-2359
P2(v) == IF v = 0 THEN P2_none ELSE "(1, -2, ', ')"

Str(v) == IF v = 0 THEN "%c(%C" ELSE "%c(%C, "

\* lines 2360-2378
CallFunctionVar(v, version) ==
    IF version = <<3, 5>>
    THEN IF v # 0
         THEN Template(<<"%c(*%C, %c)">>, <<"0", P2(v), "-2">>)
         ELSE Template(<<"%c(*%C)">>, <<"0", "(1, 100, '')">>)
    ELSE IF version = <<3, 4>>
    THEN IF v = 0
         THEN Template(<<"%c(*%c)">>, <<"0", "-2">>)
         ELSE Template(<<"%c(%C, *%c)">>, <<"0", P2(v), "-2">>)
    ELSE Template(<<Str(v), "*%c)">>, <<"0", P2(v), "-2">>)

\* lines 2382-2396
CallFunctionVarKw(v, version) ==
    LET na == v % 256
    IN  IF version = <<3, 5>> /\ na = 0
        THEN Template(<<Str(v), "*%c, **%c)">>,
                      <<"0", IF P2(v) # P2_none THEN "(2, -2, ', ')" ELSE P2(v),
                        "1", "-2">>)
        ELSE Template(<<Str(v), "*%c, **%c)">>,
                      <<"0", IF P2(v) # P2_none THEN "(1, -3, ', ')" ELSE P2(v),
                        "-3", "-2">>)

\* lines 2335-2401: the keys that get an entry
HasEntry(k) ==
    \/ StartsWith(k, <<"CALL", "METHOD">>)
    \/ StartsWith(k, CALL_FUNCTION_KW)
    \/ OpOf(k) \in {CALL_FUNCTION, CALL_FUNCTION_VAR, CALL_FUNCTION_VAR_KW,
                    CALL_FUNCTION_KW}

\* lines 2335-2401: the entry made for the key k with the value v
TableEntry(k, v, version) ==
    IF StartsWith(k, <<"CALL", "METHOD">>)
    THEN Template(<<"%c(%P)">>, <<"0", "(1, -1, ', ', 100)">>)
    ELSE IF StartsWith(k, CALL_FUNCTION_KW)
    THEN Template(<<"%c(%P)">>, <<"0", "(1, -1, ', ', 100)">>)
    ELSE IF OpOf(k) = CALL_FUNCTION
    THEN Template(<<"%c(%P)">>,
                  <<"(0, 'expr')", "(1, -1, ', ', PRECEDENCE['yield'] - 1)">>)
    ELSE IF OpOf(k) = CALL_FUNCTION_VAR
    THEN CallFunctionVar(v, version)
    ELSE IF OpOf(k) = CALL_FUNCTION_KW
    THEN Template(<<Str(v), "**%c)">>, <<"0", P2(v), "-2">>)
    ELSE CallFunctionVarKw(v, version)

\* lines 2330-2409: the table after customize(dict) by a walker of the
\* given version
customize(table, dict, version) ==
    LET added == {k \in DOMAIN dict : k \notin DOMAIN table /\ HasEntry(k)}
    IN  [k \in DOMAIN table \cup added |->
            IF k \in DOMAIN table THEN table[k]
            ELSE TableEntry(k, dict[k], version)]

InitTable ==
    /\ IfIdle
    /\ LateIdle
    /\ DeparseIdle
    /\ WriteIdle
    /\ PrecIdle
    /\ DocIdle
    /\ TABLE_R = <<>>
    /\ walker = <<>>

\* lines 209-307: SourceWalker(version, ...); the walkers are made in order
NewWalker ==
    /\ Len(walker) < Cardinality(Walkers)
    /\ \E version \in Versions :
         walker' = Append(walker, [version |-> version, ncustomize |-> 0,
                                   found |-> <<>>, alone |-> <<>>])
    /\ UNCHANGED TABLE_R
    /\ UNCHANGED notTable

\* lines 2325-2409: self.customize(customize), and the entries the walker
\* finds in TABLE_R for the keys of its code object; alone holds the entries
\* of a table no other walker has written
Customize ==
    /\ \E w \in 1..Len(walker), dict \in Customizations :
         /\ walker[w].ncustomize < MaxCustomize
         /\ TABLE_R' = customize(TABLE_R, dict, walker[w].version)
         /\ LET alone == customize(walker[w].alone, dict, walker[w].version)
            IN  walker' = [walker EXCEPT
                    ![w].ncustomize = @ + 1,
                    ![w].alone = alone,
                    ![w].found = [k \in DOMAIN alone |-> TABLE_R'[k]]]
    /\ UNCHANGED notTable

NextTable ==
    \/ NewWalker
    \/ Customize

SpecTable == InitTable /\ [][NextTable]_vars

\* C17: the entries a walker finds for the keys of its code objects are the
\* entries its own customize calls make; no entry another walker made
\* stands in for them.
C17_RenderIndependence ==
    \A w \in 1..Len(walker) : walker[w].found = walker[w].alone

(***************************************************************************)
(* code_deparse and build_ast (pysource.py 2509-2593, 2601-2712): which    *)
(* calls end the render, what is written, and how code_deparse ends.       *)
(***************************************************************************)
MaxNested == 2
MaxDiagnostics == 2

\* the tree checker(ast, False, self.ast_errors) appends this many strings
Diagnostics(k) == [j \in 1..k |-> "diagnostic"]

InitDeparse ==
    /\ IfIdle
    /\ LateIdle
    /\ WriteIdle
    /\ PrecIdle
    /\ DocIdle
    /\ TableIdle
    /\ xpc = "start"
    /\ tolerate_errors \in BOOLEAN
    /\ deparsed_ast = "unset"
    /\ ast_errors = <<>>
    /\ ERROR = FALSE
    /\ written = <<>>
    /\ outcome = "running"
    /\ nested = 0
    /\ parse_failures = 0

\* lines 2544-2545, 2582-2584: the handler of the parser's failure
ParserFails ==
    /\ parse_failures' = parse_failures + 1
    /\ outcome' = "ParserError"
    /\ xpc' = "done"

\* lines 2647-2653 with 2572-2584: the parser fails on the code object's
\* tokens
Build_ast_raises ==
    /\ xpc = "start"
    /\ ParserFails
    /\ UNCHANGED <<tolerate_errors, deparsed_ast, ast_errors, ERROR, written,
                   nested>>
    /\ UNCHANGED notDeparse

\* lines 2647-2657 with 2530-2548, 2572-2593: the parser returns a tree;
\* outside lambda mode the checker may add diagnostics; the transformed
\* tree is deparsed.ast, and code_deparse returns None if it is None
Build_ast_returns ==
    /\ xpc = "start"
    /\ \E is_lambda \in BOOLEAN, k \in 0..MaxDiagnostics,
          transformed \in {"stmts", "None"} :
         /\ ast_errors' = IF is_lambda THEN ast_errors
                          ELSE ast_errors \o Diagnostics(k)
         /\ deparsed_ast' = transformed
         /\ IF transformed = "None"
            THEN outcome' = "None" /\ xpc' = "done"
            ELSE outcome' = outcome /\ xpc' = "gen_source"
    /\ UNCHANGED <<tolerate_errors, ERROR, written, nested, parse_failures>>
    /\ UNCHANGED notDeparse

\* gen_source meets a class body or a comprehension (lines 2420, 992-995,
\* 1487-1492) and the parser fails on it: nothing catches the ParserError
Nested_build_ast_raises ==
    /\ xpc = "gen_source"
    /\ nested < MaxNested
    /\ nested' = nested + 1
    /\ ParserFails
    /\ UNCHANGED <<tolerate_errors, deparsed_ast, ast_errors, ERROR, written>>
    /\ UNCHANGED notDeparse

\* the same with a tree returned: its diagnostics join the list
Nested_build_ast_returns ==
    /\ xpc = "gen_source"
    /\ nested < MaxNested
    /\ nested' = nested + 1
    /\ \E k \in 0..MaxDiagnostics : ast_errors' = ast_errors \o Diagnostics(k)
    /\ UNCHANGED <<xpc, tolerate_errors, deparsed_ast, ERROR, written, outcome,
                   parse_failures>>
    /\ UNCHANGED notDeparse

\* gen_source meets a nested function whose maker records a parse failure
\* in self.ERROR and goes on
Maker_records_error ==
    /\ xpc = "gen_source"
    /\ nested < MaxNested
    /\ nested' = nested + 1
    /\ ERROR' = TRUE
    /\ UNCHANGED <<xpc, tolerate_errors, deparsed_ast, ast_errors, written,
                   outcome, parse_failures>>
    /\ UNCHANGED notDeparse

\* a line per unused global of deparsed.mod_globs
Globals(k) == [j \in 1..k |-> "# global"]

\* lines 2690-2701 with 2483-2507: gen_source returns, the text is
\* written, then the warnings about unused globals
Gen_source_returns ==
    /\ xpc = "gen_source"
    /\ \E k \in 0..1 : written' = written \o <<"text">> \o Globals(k)
    /\ xpc' = "report"
    /\ UNCHANGED <<tolerate_errors, deparsed_ast, ast_errors, ERROR, outcome,
                   nested, parse_failures>>
    /\ UNCHANGED notDeparse

Report_lenient ==
    /\ xpc = "report"
    /\ IF ast_errors # <<>>
       THEN /\ written' = written \o <<"NOTE", "Use -T">> \o ast_errors
            /\ outcome' = "walker"
       ELSE /\ written' = written
            /\ outcome' = IF ERROR THEN "SourceWalkerError" ELSE "walker"
    /\ xpc' = "done"
    /\ UNCHANGED <<tolerate_errors, deparsed_ast, ast_errors, ERROR, nested,
                   parse_failures>>
    /\ UNCHANGED notDeparse

\* lines 2703-2712
Report ==
    /\ xpc = "report"
    /\ IF ast_errors # <<>>
       THEN /\ written' = written \o <<"NOTE", "Use -T">> \o ast_errors
            /\ outcome' = "SourceWalkerError"
       ELSE /\ written' = written
            /\ outcome' = IF ERROR THEN "SourceWalkerError" ELSE "walker"
    /\ xpc' = "done"
    /\ UNCHANGED <<tolerate_errors, deparsed_ast, ast_errors, ERROR, nested,
                   parse_failures>>
    /\ UNCHANGED notDeparse

NextDeparse ==
    \/ Build_ast_raises
    \/ Build_ast_returns
    \/ Nested_build_ast_raises
    \/ Nested_build_ast_returns
    \/ Maker_records_error
    \/ Gen_source_returns
    \/ Report

SpecDeparse == InitDeparse /\ [][NextDeparse]_vars

Ended == xpc = "done"

\* the first build_ast returned a tree
Built == deparsed_ast = "stmts"

\* gen_source returned: the source text is in the output
Generated == \E k \in 1..Len(written) : written[k] = "text"

\* the warning lines and the diagnostics stand after the text, and last
ReportedAtEnd ==
    \E k \in 0..1 :
        written = <<"text">> \o [j \in 1..k |-> "# global"]
                    \o <<"NOTE", "Use -T">> \o ast_errors

\* C18: once the parser has failed in build_ast, a ParserError ends the
\* render if tolerant mode is off, and with tolerant mode on no ParserError
\* is raised and the failure is on record.
C18_ParseFailurePolicy ==
    parse_failures > 0 =>
        IF tolerate_errors
        THEN outcome # "ParserError" /\ (ERROR \/ ast_errors # <<>>)
        ELSE outcome = "ParserError"

\* C19 as stated, for the walker code_deparse builds (tolerant mode off):
\* once build_ast gave a tree, diagnostics on record make code_deparse end
\* with the warning lines after the text and a SourceWalkerError; no
\* diagnostics, no error flag and no failure of the parser make it return
\* the walker.
C19_AsStated ==
    (Ended /\ Built /\ ~tolerate_errors) =>
        /\ ast_errors # <<>> => outcome = "SourceWalkerError" /\ ReportedAtEnd
        /\ (ast_errors = <<>> /\ ~ERROR /\ parse_failures = 0) =>
               outcome = "walker"

\* C19 amended: diagnostics alone never end the render; if gen_source
\* returned, diagnostics on record make code_deparse end with the warning
\* lines after the text and a SourceWalkerError, and no diagnostics and no
\* error flag make it return the walker; with diagnostics on record the
\* walker is never returned, and nothing but the text is written unless
\* gen_source returned.
C19_ReportedAtEnd ==
    /\ (outcome = "ParserError") => parse_failures > 0
    /\ (Ended /\ Built /\ Generated) =>
          /\ ast_errors # <<>> =>
                outcome = "SourceWalkerError" /\ ReportedAtEnd
          /\ (ast_errors = <<>> /\ ~ERROR) => outcome = "walker"
    /\ (Ended /\ ast_errors # <<>>) => outcome # "walker"
    /\ ~Generated => written = <<>>

C19_Witness ==
    /\ Ended
    /\ Built
    /\ Len(ast_errors) = 2
    /\ nested = 1
    /\ outcome = "SourceWalkerError"
    /\ ReportedAtEnd

\* C21: in the Variant A scan, for every instruction array ordered by
\* strictly increasing offset, every index of the body's first instruction
\* and every jump target, the call ends with a boolean: no instruction is
\* read at an index outside the array.
C21_NoIndexFault == (pc = "done" /\ "L47" \in seen) => result \in {"True", "False"}

\* C21 amended: the scan ends with a boolean when the jump target is not
\* beyond the offset of the last instruction; it faults, reading one past
\* the end of the array, exactly when the target lies beyond that offset and
\* no instruction from the body's first on jumps to the target.
C21_FaultOnlyPastEnd ==
    (pc = "done" /\ "L47" \in seen) =>
        /\ result \in {"True", "False", "IndexError"}
        /\ result = "IndexError" <=>
             /\ target_offset > insts[Len(insts)].offset
             /\ \A k \in inst_offset..(Len(insts) - 1) :
                  ~(At(insts, k).optype \in {"jabs", "jrel"}
                      /\ At(insts, k).argval = target_offset)

\* the scan stepped over an instruction and stopped at the target
C21_Witness ==
    /\ pc = "done" /\ "L47" \in seen
    /\ i > inst_offset
    /\ target_offset = insts[Len(insts)].offset
    /\ result = "True"

(***************************************************************************)
(* SourceWalker.template_engine at one marker of a template (pysource.py   *)
(* 2222-2287): %p, %C, %D and %P.  A child of node is its kind, its        *)
(* length, and whether rendering it raises.                                *)
(***************************************************************************)
MaxChildren == 3

\* the bound of a Python slice: a negative bound counts from the end, and
\* both bounds are clipped to the sequence
Clip(len, b) ==
    IF b < 0 THEN Max(len + b, 0) ELSE IF b > len THEN len ELSE b

\* node[low:high] as the positions (1-based) of the children taken
Slice(len, low_, high_) ==
    LET a == Clip(len, low_)
        b == Clip(len, high_)
    IN  IF a < b THEN [j \in 1..(b - a) |-> a + j] ELSE <<>>

Subnodes == Slice(Len(tchildren), targ.low, targ.high)

ChildKinds == {"expr", "stmt"}

Children ==
    UNION {[1..len -> [kind : ChildKinds, len : {0, 1}, raises : BOOLEAN]] :
              len \in 0..MaxChildren}

\* entry[arg] of %p: (index, prec) or (index, nonterm_name, prec), where
\* nonterm_name is a kind or a tuple of kinds; names <<>> is the short form
Args_p(len) ==
    [index : 0..(len - 1), names : {<<>>, <<"expr">>, <<"expr", "stmt">>},
     prec : {0, PRECEDENCE_yield}]

\* entry[arg] of %C and %D: (low, high, sep); of %P: (low, high, sep, prec)
Args_range == [low : {0, 1}, high : {-1, 9}]
Args_P == [low : {0, 1}, high : {-1, 9}, prec : {0, PRECEDENCE_yield}]

InitTemplate ==
    /\ IfIdle
    /\ WriteIdle
    /\ DocIdle
    /\ TableIdle
    /\ DeparseIdle
    /\ HandlerIdle
    /\ TailIdle
    /\ BlockIdle
    /\ kstack = <<>>
    /\ fin = <<>>
    /\ prec \in {6, 100}
    /\ tprec0 = prec
    /\ tchildren \in Children
    /\ typ \in {"p", "P", "C", "D"}
    /\ IF typ = "p"
       THEN tchildren # <<>> /\ targ \in Args_p(Len(tchildren))
       ELSE targ \in (IF typ = "P" THEN Args_P ELSE Args_range)
    /\ tpc = "start"
    /\ tp = 0
    /\ remaining = 0
    /\ tk = 0
    /\ emitted = <<>>

notEngine == <<ifvars, wvars, dvars, tvars, xvars, hvars, bvars, ivars,
               kstack, fin>>

Rendered_(j) == [ev |-> "child", at |-> j]
Separator(j) == [ev |-> "sep", at |-> j]

\* lines 2222-2243: the precedence is installed, then the child's kind is
\* checked against the name or names of the long form
Marker_p ==
    /\ tpc = "start"
    /\ typ = "p"
    /\ tp' = prec
    /\ prec' = targ.prec
    /\ LET kind == At(tchildren, targ.index).kind
           expected == {targ.names[j] : j \in 1..Len(targ.names)}
       IN  tpc' = IF targ.names = <<>> \/ kind \in expected
                  THEN "child" ELSE "raised"
    /\ UNCHANGED <<typ, targ, tchildren, remaining, tk, emitted, tprec0>>
    /\ UNCHANGED notEngine

\* lines 2245-2247: self.preorder(node[index]) returns
Preorder_returns ==
    /\ tpc = "child"
    /\ ~At(tchildren, targ.index).raises
    /\ emitted' = Append(emitted, Rendered_(targ.index + 1))
    /\ prec' = tp
    /\ tpc' = "done"
    /\ UNCHANGED <<typ, targ, tchildren, tp, remaining, tk, tprec0>>
    /\ UNCHANGED notEngine

\* line 2245: self.preorder(node[index]) raises
Preorder_raises ==
    /\ tpc = "child"
    /\ At(tchildren, targ.index).raises
    /\ tpc' = "raised"
    /\ UNCHANGED <<prec, typ, targ, tchildren, tp, remaining, tk, emitted,
                   tprec0>>
    /\ UNCHANGED notEngine

\* lines 2248-2250, 2259-2261, 2276-2279
Marker_range ==
    /\ tpc = "start"
    /\ typ \in {"C", "D", "P"}
    /\ IF typ = "P"
       THEN tp' = prec /\ prec' = targ.prec
       ELSE UNCHANGED <<tp, prec>>
    /\ remaining' = Len(Subnodes)
    /\ tk' = 0
    /\ tpc' = "loop"
    /\ UNCHANGED <<typ, targ, tchildren, emitted, tprec0>>
    /\ UNCHANGED notEngine

\* lines 2251-2255 and 2281-2285: one subnode of %C or %P
Iterate_C ==
    /\ tpc = "loop"
    /\ typ \in {"C", "P"}
    /\ tk < Len(Subnodes)
    /\ ~tchildren[Subnodes[tk + 1]].raises
    /\ remaining' = remaining - 1
    /\ emitted' = emitted \o <<Rendered_(Subnodes[tk + 1])>>
                    \o (IF remaining' > 0 THEN <<Separator(Subnodes[tk + 1])>>
                        ELSE <<>>)
    /\ tk' = tk + 1
    /\ UNCHANGED <<prec, typ, targ, tchildren, tpc, tp, tprec0>>
    /\ UNCHANGED notEngine

\* lines 2262-2268 rendering every subnode
Iterate_D_all ==
    /\ tpc = "loop"
    /\ typ = "D"
    /\ tk < Len(Subnodes)
    /\ ~tchildren[Subnodes[tk + 1]].raises
    /\ remaining' = remaining - 1
    /\ emitted' = emitted \o <<Rendered_(Subnodes[tk + 1])>>
                    \o (IF remaining' > 0 THEN <<Separator(Subnodes[tk + 1])>>
                        ELSE <<>>)
    /\ tk' = tk + 1
    /\ UNCHANGED <<prec, typ, targ, tchildren, tpc, tp, tprec0>>
    /\ UNCHANGED notEngine

\* lines 2262-2268: one subnode of %D
Iterate_D ==
    /\ tpc = "loop"
    /\ typ = "D"
    /\ tk < Len(Subnodes)
    /\ LET subnode == tchildren[Subnodes[tk + 1]]
       IN  /\ subnode.len > 0 => ~subnode.raises
           /\ remaining' = remaining - 1
           /\ emitted' =
                IF subnode.len > 0
                THEN emitted \o <<Rendered_(Subnodes[tk + 1])>>
                       \o (IF remaining' > 0
                           THEN <<Separator(Subnodes[tk + 1])>> ELSE <<>>)
                ELSE emitted
    /\ tk' = tk + 1
    /\ UNCHANGED <<prec, typ, targ, tchildren, tpc, tp, tprec0>>
    /\ UNCHANGED notEngine

\* lines 2252, 2265, 2282: self.preorder(subnode) raises
Iterate_raises ==
    /\ tpc = "loop"
    /\ tk < Len(Subnodes)
    /\ LET subnode == tchildren[Subnodes[tk + 1]]
       IN  subnode.raises /\ (typ = "D" => subnode.len > 0)
    /\ tpc' = "raised"
    /\ UNCHANGED <<prec, typ, targ, tchildren, tp, remaining, tk, emitted,
                   tprec0>>
    /\ UNCHANGED notEngine

\* lines 2258, 2271, 2286-2287: the loop is over
Range_end ==
    /\ tpc = "loop"
    /\ tk = Len(Subnodes)
    /\ IF typ = "P" THEN prec' = tp ELSE UNCHANGED prec
    /\ tpc' = "done"
    /\ UNCHANGED <<typ, targ, tchildren, tp, remaining, tk, emitted, tprec0>>
    /\ UNCHANGED notEngine

NextTemplate ==
    \/ Marker_p
    \/ Preorder_returns
    \/ Preorder_raises
    \/ Marker_range
    \/ Iterate_C
    \/ Iterate_D
    \/ Iterate_raises
    \/ Range_end

SpecTemplate == InitTemplate /\ [][NextTemplate]_vars

\* the children rendered by the marker and the separators written, as
\* positions of node
Kids == SelectSeq(emitted, LAMBDA e : e.ev = "child")
Seps == SelectSeq(emitted, LAMBDA e : e.ev = "sep")

\* C22: when template_engine processes a %p or %P marker, self.prec after
\* the marker equals self.prec before it on every exit path, also when the
\* assertion on the child's kind fails or the child's render raises.
C22_PrecRestoredOnExit ==
    (typ \in {"p", "P"} /\ tpc \in {"done", "raised"}) => prec = tprec0

\* C23: for %C, %P and %D and every child range, the output of the marker
\* neither begins nor ends with the separator, and when k >= 1 children are
\* rendered exactly k - 1 separators are written.
C23_SeparatorsBetween ==
    (typ \in {"C", "P", "D"} /\ tpc = "done") =>
        /\ emitted # <<>> =>
             emitted[1].ev # "sep" /\ emitted[Len(emitted)].ev # "sep"
        /\ Len(Kids) >= 1 => Len(Seps) = Len(Kids) - 1

\* C24: at a %D marker an empty child of the range (length 0) is not
\* rendered and no separator is written for it, while every non-empty child
\* of the range is rendered exactly once, in order.
C24_SkipsEmpty ==
    (typ = "D" /\ tpc = "done") =>
        /\ [j \in 1..Len(Kids) |-> Kids[j].at]
             = SelectSeq(Subnodes, LAMBDA c : tchildren[c].len > 0)
        /\ \A j \in 1..Len(emitted) : tchildren[emitted[j].at].len > 0

C24_Witness ==
    /\ typ = "D" /\ tpc = "done"
    /\ Len(Subnodes) = 3
    /\ tchildren[Subnodes[2]].len = 0
    /\ Len(Kids) = 2

(***************************************************************************)
(* The handlers n_return, n_return_if_stmt and n_alias (pysource.py        *)
(* 586-626, 838-846).  A return node is the kind of node[0] and the shape  *)
(* of the value under it: the None constant, another constant, or another  *)
(* expression.  An alias node is the imported name node[0].pattr and the   *)
(* bound name node[-1][-1].pattr.  The render of a child is the write of   *)
(* its text.                                                               *)
(***************************************************************************)
MaxName == 3

Word_return == <<"r", "e", "t", "u", "r", "n">>
Word_as == <<" ", "a", "s", " ">>

PopReturns == {"pop_return", "popb_return", "pop_ex_return"}

\* return ::= return_expr RETURN_VALUE, or a pop-return form;
\* return_if_stmt ::= return_expr RETURN_END_IF
ReturnNodes ==
    [kind : {"return"}, first : {"return_expr"} \cup PopReturns,
     value : {"None", "const", "expr"}]
      \cup [kind : {"return_if_stmt"}, first : {"return_expr"},
            value : {"None", "const", "expr"}]

\* what self.preorder(node[0]) writes: line 717 for the None constant
ValueText(node_) ==
    IF node_.value = "None" THEN <<"N", "o", "n", "e">>
    ELSE IF node_.value = "const" THEN <<"1">>
    ELSE <<"x">>

\* identifiers over two letters
Identifiers(len) == UNION {[1..m -> {"a", "b"}] : m \in 1..len}

\* dotted names: an identifier, or two identifiers joined by a dot
DottedNames(len) ==
    Identifiers(len)
      \cup {x \o <<".">> \o y : x \in Identifiers(len), y \in Identifiers(len)}

AliasNodes ==
    {[kind |-> "alias", iname |-> x, sname |-> y] :
        x \in {d \in DottedNames(MaxName) : Len(d) <= MaxName},
        y \in Identifiers(MaxName - 1)}

InitHandlers ==
    /\ IfIdle
    /\ PrecIdle
    /\ DocIdle
    /\ TableIdle
    /\ DeparseIdle
    /\ EngineIdle
    /\ TailIdle
    /\ BlockIdle
    /\ hnode \in ReturnNodes \/ hnode \in AliasNodes
    /\ return_none \in (IF hnode.kind = "alias" THEN {FALSE} ELSE BOOLEAN)
    /\ hname = "none"
    /\ \E indent \in {<<>>, TAB},
          is_lambda \in (IF hnode.kind = "alias" THEN {FALSE} ELSE BOOLEAN) :
         params = FreshParams(indent, is_lambda)
    /\ param_stack = <<>>
    /\ pending_newlines = 0
    /\ frames = <<>>
    /\ log = <<>>
    /\ ret = <<>>
    /\ nops = 0

notHandlers == <<ifvars, pvars, dvars, tvars, xvars, evars, bvars, ivars,
                 param_stack, frames, ret, nops, hnode, return_none>>

\* the handler makes the calls, in order
Makes(name, calls_) ==
    /\ hname = "none"
    /\ LET st == Run(calls_, [f |-> params.f, pending |-> pending_newlines])
       IN  /\ params' = [params EXCEPT !.f = st.f]
           /\ pending_newlines' = st.pending
    /\ log' = log \o calls_
    /\ hname' = name
    /\ UNCHANGED notHandlers

\* lines 491-496 for a constant of any value
is_return_none_any(node_) ==
    node_.first = "return_expr" /\ node_.value \in {"None", "const"}

\* lines 489-502
is_return_none(node_) == node_.first = "return_expr" /\ node_.value = "None"

\* lines 595-602 and 621-625: the statement-level return
ReturnStatement(node_) ==
    <<Call("write", <<params.indent, Word_return>>)>>
      \o (IF return_none \/ ~is_return_none(node_)
          THEN <<Call("write", <<<<" ">>>>), Call("write", <<ValueText(node_)>>)>>
          ELSE <<>>)
      \o <<Call("println", <<>>)>>

\* lines 586-603
N_return ==
    /\ hnode.kind = "return"
    /\ Makes("n_return",
             IF params.is_lambda \/ hnode.first \in PopReturns
             THEN <<Call("write", <<ValueText(hnode)>>)>>
             ELSE ReturnStatement(hnode))

\* lines 615-626
N_return_if_stmt ==
    /\ hnode.kind = "return_if_stmt"
    /\ Makes("n_return_if_stmt",
             IF params.is_lambda
             THEN <<Call("write", <<<<" ">> \o Word_return \o <<" ">>>>),
                    Call("write", <<ValueText(hnode)>>)>>
             ELSE ReturnStatement(hnode))

\* line 842 with endswith("." + sname) in place of startswith(sname + ".")
OmitsAs_last(iname, sname) ==
    \/ iname # <<>> /\ iname = sname
    \/ /\ Len(iname) > Len(sname)
       /\ SubSeq(iname, Len(iname) - Len(sname), Len(iname)) = <<".">> \o sname

\* line 842
OmitsAs(iname, sname) ==
    \/ iname # <<>> /\ iname = sname
    \/ StartsWith(iname, sname \o <<".">>)

\* lines 838-846; the branch of lines 826-836 is for versions up to 2.1
N_alias ==
    /\ hnode.kind = "alias"
    /\ Makes("n_alias",
             IF OmitsAs(hnode.iname, hnode.sname)
             THEN <<Call("write", <<hnode.iname>>)>>
             ELSE <<Call("write", <<hnode.iname, Word_as, hnode.sname>>)>>)

NextHandlers ==
    \/ N_return
    \/ N_return_if_stmt
    \/ N_alias

SpecHandlers == InitHandlers /\ [][NextHandlers]_vars

\* C25: in a lambda scope every return handler renders only the value
\* expression and writes no 'return' keyword.
C25_LambdaNoKeyword ==
    (params.is_lambda /\ hname \in {"n_return", "n_return_if_stmt"}) =>
        /\ log = <<Call("write", <<ValueText(hnode)>>)>>
        /\ ~Contains(params.f, Word_return)

\* C26: for a statement-level return (not a lambda scope, not a pop-return
\* form) n_return writes the indentation and 'return', then the value if and
\* only if return_none is set or the value is not the None constant, and
\* always ends the line.
C26_BareReturn ==
    (hname = "n_return" /\ ~params.is_lambda /\ hnode.first = "return_expr") =>
        /\ log = <<Call("write", <<params.indent, Word_return>>)>>
                   \o (IF return_none \/ hnode.value # "None"
                       THEN <<Call("write", <<<<" ">>>>),
                              Call("write", <<ValueText(hnode)>>)>>
                       ELSE <<>>)
                   \o <<Call("println", <<>>)>>
        /\ (hnode.value = "None" /\ ~return_none) =>
              params.f = params.indent \o Word_return
        /\ pending_newlines = 1

C26_Witness ==
    /\ hname = "n_return" /\ ~params.is_lambda /\ hnode.first = "return_expr"
    /\ hnode.value = "None" /\ ~return_none
    /\ params.indent = TAB
    /\ params.f = TAB \o Word_return

\* the part of a dotted name after its last dot
RECURSIVE LastComponent(_)
LastComponent(name) ==
    IF name = <<>> \/ name[Len(name)] = "." THEN <<>>
    ELSE Append(LastComponent(SubSeq(name, 1, Len(name) - 1)), name[Len(name)])

\* n_alias wrote the imported name alone
WroteNameOnly == log = <<Call("write", <<hnode.iname>>)>>
WroteNameAs == log = <<Call("write", <<hnode.iname, Word_as, hnode.sname>>)>>

\* C27 as stated: n_alias omits ' as <bound name>' exactly when the imported
\* name equals the bound name or the bound name is the last dotted component
\* of the imported name.
C27_AsStated ==
    hname = "n_alias" =>
        /\ WroteNameOnly <=>
             \/ hnode.iname = hnode.sname
             \/ LastComponent(hnode.iname) = hnode.sname
        /\ WroteNameOnly \/ WroteNameAs

\* C27 amended: the suffix is omitted exactly when the imported name equals
\* the bound name or starts with the bound name followed by a dot (the bound
\* name is the leading component, as in "import a.b", which binds a).
C27_LeadingComponent ==
    hname = "n_alias" =>
        /\ WroteNameOnly <=>
             \/ hnode.iname = hnode.sname
             \/ /\ Len(hnode.iname) > Len(hnode.sname)
                /\ SubSeq(hnode.iname, 1, Len(hnode.sname) + 1)
                     = hnode.sname \o <<".">>
        /\ WroteNameOnly \/ WroteNameAs

\* "import a.b as b" keeps its suffix
C27_Witness ==
    /\ hname = "n_alias"
    /\ hnode.iname = <<"a", ".", "b">> /\ hnode.sname = <<"b">>
    /\ params.f = <<"a", ".", "b", " ", "a", "s", " ", "b">>

(***************************************************************************)
(* The handlers that change the indentation (pysource.py 426-430, 737-823, *)
(* 850-873, 1655-1657, 1775-1981, 2043-2065).  n_ifelsestmtr is followed   *)
(* statement by statement; of the children only the place in the output is *)
(* kept, as a preorder entry of the log: the test, a body, an if-return    *)
(* sibling, another sibling.  A child render leaves self.indent as it      *)
(* found it.                                                               *)
(***************************************************************************)
MaxSiblings == 3

Word_else == <<"e", "l", "s", "e", ":">>
Word_if == <<"i", "f", " ">>
Word_elif == <<"e", "l", "i", "f", " ">>

\* INDENT_PER_LEVEL, imported at line 164: a non-empty string of spaces
IndentUnits == {<<" ">>, <<" ", " ">>}

\* line 427
indent_more(indent, unit) == indent \o unit

\* line 430 dropping one character
indent_less_one(indent, unit) == SubSeq(indent, 1, Len(indent) - 1)

\* line 430: self.indent[: -len(indent)]
indent_less(indent, unit) ==
    IF Len(unit) = 0 THEN <<>>
    ELSE SubSeq(indent, 1, Max(Len(indent) - Len(unit), 0))

BlockKinds ==
    {"ifelsestmtr", "elifelsestmtr", "mkfunc", "classdef", "dict", "list"}

InitBlock ==
    /\ IfIdle
    /\ PrecIdle
    /\ DocIdle
    /\ TableIdle
    /\ DeparseIdle
    /\ EngineIdle
    /\ TailIdle
    /\ hnode \in [kind : BlockKinds]
    /\ return_none = FALSE
    /\ hname = "none"
    /\ siblings \in
         IF hnode.kind \in {"ifelsestmtr", "elifelsestmtr"}
         THEN UNION {[1..len -> BOOLEAN] : len \in 1..MaxSiblings}
         ELSE {<<>>}
    /\ ipc = "start"
    /\ ik = 0
    /\ past_else = FALSE
    /\ prev_stmt_is_if_ret = FALSE
    /\ if_ret_at_end = FALSE
    /\ \E indent \in {<<>>, TAB} : params = FreshParams(indent, FALSE)
    /\ indent0 = params.indent
    /\ param_stack = <<>>
    /\ pending_newlines = 0
    /\ frames = <<>>
    /\ log = <<>>
    /\ ret = <<>>
    /\ nops = 0

notBlock == <<ifvars, pvars, dvars, tvars, xvars, evars, bvars,
              param_stack, frames, ret, nops, hnode, return_none, siblings,
              indent0>>

Preorder(what) == Call("preorder", <<what>>)
Test == <<"t">>
Body_ == <<"b">>
IfReturn == <<"i">>
Other == <<"o">>

\* the calls of the handler itself, without those of the children
Own(calls_) == SelectSeq(calls_, LAMBDA c : c.op # "preorder")

\* the handler makes the calls and leaves the indentation at indent
Does(calls_, indent) ==
    /\ LET st == Run(Own(calls_), [f |-> params.f, pending |-> pending_newlines])
       IN  /\ params' = [params EXCEPT !.f = st.f, !.indent = indent]
           /\ pending_newlines' = st.pending
    /\ log' = log \o calls_
    /\ UNCHANGED notBlock

\* lines 746-754: neither the first nor the last sibling is an if-return
N_ifelsestmtr_default ==
    /\ ipc = "start"
    /\ hnode.kind = "ifelsestmtr"
    /\ ~siblings[1] /\ ~siblings[Len(siblings)]
    /\ Does(<<>>, params.indent)
    /\ ipc' = "default"
    /\ hname' = "default"
    /\ UNCHANGED <<ik, past_else, prev_stmt_is_if_ret, if_ret_at_end>>

\* lines 756-772
N_ifelsestmtr ==
    /\ ipc = "start"
    /\ hnode.kind = "ifelsestmtr"
    /\ siblings[1] \/ siblings[Len(siblings)]
    /\ Does(<<Call("write", <<params.indent, Word_if>>), Preorder(Test),
              Call("println", <<<<":">>>>), Preorder(Body_)>>,
            indent_less(indent_more(params.indent, TAB), TAB))
    /\ if_ret_at_end' = (Len(siblings) >= 3 /\ siblings[Len(siblings)])
    /\ past_else' = FALSE
    /\ prev_stmt_is_if_ret' = TRUE
    /\ ik' = 0
    /\ ipc' = "loop"
    /\ hname' = "n_ifelsestmtr"

\* lines 773-784: one sibling
Sibling ==
    /\ ipc = "loop"
    /\ ik < Len(siblings)
    /\ IF siblings[ik + 1]
       THEN /\ Does(<<Preorder(IfReturn)>>, params.indent)
            /\ prev_stmt_is_if_ret' = TRUE
            /\ UNCHANGED past_else
       ELSE /\ prev_stmt_is_if_ret' = FALSE
            /\ IF ~past_else /\ ~if_ret_at_end
               THEN /\ Does(<<Call("println", <<params.indent, Word_else>>),
                              Preorder(Other)>>,
                            indent_more(params.indent, TAB))
                    /\ past_else' = TRUE
               ELSE /\ Does(<<Preorder(Other)>>, params.indent)
                    /\ UNCHANGED past_else
    /\ ik' = ik + 1
    /\ UNCHANGED <<ipc, hname, if_ret_at_end>>

\* lines 785-790
N_ifelsestmtr_end ==
    /\ ipc = "loop"
    /\ ik = Len(siblings)
    /\ IF ~past_else \/ if_ret_at_end
       THEN Does(<<Call("println", <<params.indent, Word_else>>),
                   Preorder(Body_)>>,
                 indent_less(indent_more(params.indent, TAB), TAB))
       ELSE Does(<<Preorder(Body_)>>, indent_less(params.indent, TAB))
    /\ ipc' = "done"
    /\ UNCHANGED <<hname, ik, past_else, prev_stmt_is_if_ret, if_ret_at_end>>

\* lines 794-823, every sibling an if-return; otherwise lines 804-807
N_elifelsestmtr ==
    /\ ipc = "start"
    /\ hnode.kind = "elifelsestmtr"
    /\ IF \A j \in 1..Len(siblings) : siblings[j]
       THEN /\ Does(<<Call("write", <<params.indent, Word_elif>>),
                      Preorder(Test), Call("println", <<<<":">>>>),
                      Preorder(Body_)>>
                      \o [j \in 1..Len(siblings) |-> Preorder(IfReturn)]
                      \o <<Call("println", <<params.indent, Word_else>>),
                           Preorder(Body_)>>,
                    indent_less(indent_more(
                        indent_less(indent_more(params.indent, TAB), TAB),
                        TAB), TAB))
            /\ hname' = "n_elifelsestmtr"
            /\ ipc' = "done"
       ELSE /\ Does(<<>>, params.indent)
            /\ hname' = "default"
            /\ ipc' = "default"
    /\ UNCHANGED <<ik, past_else, prev_stmt_is_if_ret, if_ret_at_end>>

\* lines 862-872 and 1655-1657: indent_more(), the body, indent_less()
N_mkfunc ==
    /\ ipc = "start"
    /\ hnode.kind \in {"mkfunc", "classdef"}
    /\ Does(<<Preorder(Body_)>>,
            indent_less(indent_more(params.indent, TAB), TAB))
    /\ hname' = IF hnode.kind = "mkfunc" THEN "n_mkfunc" ELSE "n_classdef"
    /\ ipc' = "done"
    /\ UNCHANGED <<ik, past_else, prev_stmt_is_if_ret, if_ret_at_end>>

\* lines 1775-1981 and 2043-2065: indent_more(INDENT_PER_LEVEL), the
\* elements, indent_less(INDENT_PER_LEVEL)
N_list ==
    /\ ipc = "start"
    /\ hnode.kind \in {"dict", "list"}
    /\ \E unit \in IndentUnits :
         Does(<<Preorder(Body_)>>,
              indent_less(indent_more(params.indent, unit), unit))
    /\ hname' = IF hnode.kind = "dict" THEN "n_dict" ELSE "n_list"
    /\ ipc' = "done"
    /\ UNCHANGED <<ik, past_else, prev_stmt_is_if_ret, if_ret_at_end>>

NextBlock ==
    \/ N_ifelsestmtr_default
    \/ N_ifelsestmtr
    \/ Sibling
    \/ N_ifelsestmtr_end
    \/ N_elifelsestmtr
    \/ N_mkfunc
    \/ N_list

SpecBlock == InitBlock /\ [][NextBlock]_vars

\* the places of the log where an 'else:' line is written
ElseLines ==
    {j \in 1..Len(log) :
        /\ log[j].op = "println"
        /\ Len(log[j].data) = 2
        /\ log[j].data[2] = Word_else}

\* C28: on its flattening path n_ifelsestmtr writes exactly one 'else:' line
\* for every sibling list, and renders no sibling that is not an if-return
\* statement before that line.
C28_Flattened ==
    (hname = "n_ifelsestmtr" /\ ipc = "done") =>
        /\ Cardinality(ElseLines) = 1
        /\ \A e \in ElseLines : \A j \in 1..(e - 1) : log[j] # Preorder(Other)

\* C30: every handler that increases the indentation leaves self.indent,
\* when it finishes normally, as it was when the handler started, the child
\* renders doing the same; indent_less after indent_more with the same unit
\* gives back the indentation string.
C30_IndentRestored == ipc = "done" => params.indent = indent0

C30_Witness ==
    /\ ipc = "done"
    /\ hname = "n_ifelsestmtr"
    /\ past_else
    /\ indent0 = TAB
    /\ params.indent = TAB

(***************************************************************************)
(* build_ast on the end of the token list (pysource.py 2555-2569), for a   *)
(* code object that is not a lambda.  A token is its kind and its pattr.   *)
(***************************************************************************)
MaxTail == 3

Token(kind, pattr) == [kind |-> kind, pattr |-> pattr]

\* the tokens a list is made of; pattr "None" stands for the value None
TailTokens ==
    {Token("LOAD_CONST", "None"), Token("LOAD_CONST", "5"),
     Token("LOAD_NAME", "x"), Token("RETURN_VALUE", ""),
     Token("POP_TOP", "")}

InitTail ==
    /\ IfIdle
    /\ PyIdleBut
    /\ btokens \in UNION {[1..len -> TailTokens] : len \in 0..MaxTail}
    /\ btokens0 = btokens
    /\ isTopLevel \in BOOLEAN
    /\ noneInNames \in BOOLEAN
    /\ hide_internal \in BOOLEAN
    /\ bpc = "start"

\* lines 2561-2562 without isTopLevel
Strips_none(load_const) ==
    load_const.kind = "LOAD_CONST" /\ load_const.pattr = "None"

\* lines 2561-2562: the tail is deleted
Strips(load_const) ==
    load_const.kind = "LOAD_CONST" /\ (isTopLevel \/ load_const.pattr = "None")

\* lines 2555-2569; PASS is returned for an empty list, otherwise the list
\* goes to the parser
Build_ast_tail ==
    /\ bpc = "start"
    /\ LET len == Len(btokens)
       IN  btokens' =
             IF /\ hide_internal
                /\ len >= 2
                /\ ~noneInNames
                /\ btokens[len].kind \in {"RETURN_VALUE", "RETURN_VALUE_LAMBDA"}
             THEN IF Strips(btokens[len - 1])
                  THEN SubSeq(btokens, 1, len - 2)
                  ELSE Append(btokens, Token("RETURN_LAST", ""))
             ELSE btokens
    /\ bpc' = IF hide_internal /\ btokens' = <<>> THEN "PASS" ELSE "parse"
    /\ UNCHANGED <<btokens0, isTopLevel, noneInNames, hide_internal>>
    /\ UNCHANGED <<ifvars, wvars, pvars, dvars, tvars, xvars, evars, hvars,
                   ivars>>

NextTail == Build_ast_tail

SpecTail == InitTail /\ [][NextTail]_vars

\* the tail normalisation ran with hide_internal set and noneInNames false
Normalised == bpc \in {"PASS", "parse"} /\ hide_internal /\ ~noneInNames

EndsInReturn == btokens0 # <<>> /\ btokens0[Len(btokens0)].kind = "RETURN_VALUE"

Stripped == btokens = SubSeq(btokens0, 1, Len(btokens0) - 2)
Marked == btokens = Append(btokens0, Token("RETURN_LAST", ""))

\* C29 as stated: for a list of at least two tokens ending in RETURN_VALUE
\* the last two tokens are removed exactly when the token before it is
\* LOAD_CONST with value None, and otherwise a RETURN_LAST marker is
\* appended; a list not ending in a return is left unchanged.
C29_AsStated ==
    Normalised =>
        /\ (Len(btokens0) >= 2 /\ EndsInReturn) =>
             IF btokens0[Len(btokens0) - 1] = Token("LOAD_CONST", "None")
             THEN Stripped ELSE Marked
        /\ ~EndsInReturn => btokens = btokens0

\* C29 amended: the last two tokens are removed exactly when the token
\* before the return is LOAD_CONST and either isTopLevel is set or its value
\* is None.
C29_TopLevelStrips ==
    Normalised =>
        /\ (Len(btokens0) >= 2 /\ EndsInReturn) =>
             IF /\ btokens0[Len(btokens0) - 1].kind = "LOAD_CONST"
                /\ (isTopLevel \/ btokens0[Len(btokens0) - 1].pattr = "None")
             THEN Stripped ELSE Marked
        /\ ~EndsInReturn => btokens = btokens0

C29_Witness ==
    /\ Normalised
    /\ isTopLevel
    /\ btokens0 = <<Token("LOAD_NAME", "x"), Token("LOAD_CONST", "5"),
                    Token("RETURN_VALUE", "")>>
    /\ btokens = <<Token("LOAD_NAME", "x")>>

=============================================================================
